---- MODULE Spec2Model ----
(***************************************************************************)
(* The No-Limit Hold'em engine of poker-rs (src/src/game.rs) as a state   *)
(* machine.  The engine state is the record `game` (the fields of struct  *)
(* Game); every method of Game is an operator from a Game record to a     *)
(* Game record, composed in the order the Rust code calls them.           *)
(*                                                                         *)
(* In `game` the deck and the board are their lengths, a seat's hole      *)
(* cards are present or absent, and the value evaluate_holdem gives a     *)
(* contender at showdown is an input `ev` of the step that resolves the   *)
(* hand (the shuffle seed is random, so any ranking of the contenders,    *)
(* ties included, can be dealt).  The cards themselves are followed in    *)
(* `cards` (SpecDeck), and the hand evaluator (src/src/evaluator) is      *)
(* modelled on cards and applied to drawn hands in `hand` (SpecEval).     *)
(***************************************************************************)
EXTENDS Integers, Sequences, FiniteSets, TLC

\* ------------------------------------------------------------------ bounds
NumPlayers == 3
MaxStrength == 3
MaxHistory == 14
MaxHands == 1

\* The tables a hand is dealt at: stacks by seat, the dealer of the hand before,
\* and the configuration Game::new was given.
Table(stacks, dealer, starting_stack, small_blind, big_blind) ==
    [stacks |-> stacks, dealer |-> dealer, starting_stack |-> starting_stack,
     small_blind |-> small_blind, big_blind |-> big_blind]

\* A seat the table lists no stack for is a busted seat.
StackAt(t, i) == IF i + 1 <= Len(t.stacks) THEN t.stacks[i + 1] ELSE 0

\* Each is a table Game::new(3 seats, starting_stack, small_blind, big_blind)
\* comes to:
\*   <<3, 3, 3>>  as constructed;
\*   <<3, 5, 1>>  blinds 2/2, after two hands in which both seats in turn
\*                fold to the big blind;
\*   <<2, 3, 4>>  blinds 1/1, after a hand in which seat 1 folds, seat 2 raises
\*                to 2 and seat 0 folds;
\*   <<4, 5, 0>>  blinds 1/1, after a hand in which seat 1 raises all-in, seat 2
\*                calls and loses and seat 0 folds, and a heads-up hand seat 0
\*                wins all-in for 2 (seat 2 is busted: the next hand is
\*                heads-up).
Tables ==
    { Table(<<3, 3, 3>>, 0, 3, 2, 2),
      Table(<<3, 5, 1>>, 2, 3, 2, 2),
      Table(<<2, 3, 4>>, 1, 3, 1, 1),
      Table(<<4, 5, 0>>, 0, 3, 1, 1) }

DeckSize == 52

Seats == 0 .. (NumPlayers - 1)
Strengths == 1 .. MaxStrength
MaxDelay == 1
MaxClock == 2
MaxReceives == 2

TotalChips(g) == NumPlayers * g.starting_stack
Amounts(g) == 0 .. (TotalChips(g) + 1)

VARIABLES game, hand_started, hands, obs, agents, cards, hand

vars == <<game, hand_started, hands, obs, agents, cards, hand>>

\* ------------------------------------------------------------------ helpers
Min2(a, b) == IF a <= b THEN a ELSE b
Max2(a, b) == IF a >= b THEN a ELSE b
MinOf(S) == CHOOSE x \in S : \A y \in S : x <= y
MaxOf(S) == CHOOSE x \in S : \A y \in S : x >= y

RECURSIVE SumOver(_, _)
SumOver(f, S) ==
    IF S = {} THEN 0
    ELSE LET x == CHOOSE y \in S : TRUE IN f[x] + SumOver(f, S \ {x})

\* Option<T>: None is {}, Some(x) is {x}.
None == {}
Some(x) == {x}

\* ------------------------------------------------------------------ construction
NewPlayer(stack) ==
    [ stack |-> stack, bet |-> 0, contributed |-> 0, status |-> "Active",
      hole |-> FALSE, last_action |-> None ]

GameNew(starting_stack, small_blind, big_blind) ==
    [ small_blind |-> small_blind,
      big_blind |-> big_blind,
      starting_stack |-> starting_stack,
      deck |-> DeckSize,
      board |-> 0,
      players |-> [i \in Seats |-> NewPlayer(starting_stack)],
      pot |-> 0,
      dealer |-> 0,
      current |-> 0,
      street |-> "Preflop",
      current_bet |-> 0,
      min_raise |-> big_blind,
      last_raiser |-> None,
      round_starter |-> 0,
      sb_pos |-> None,
      bb_pos |-> None,
      winners |-> << >>,
      showdown_evals |-> [i \in Seats |-> None],
      hand_history |-> << >> ]

\* ------------------------------------------------------------------ queries
\* A faulty is_eligible that takes an all-in seat for one that can act.
is_eligible_unless_folded(g, idx) == g.players[idx].status # "Folded"

is_eligible(g, idx) == g.players[idx].status = "Active"

count_eligible(g) == Cardinality({i \in Seats : is_eligible(g, i)})

\* A faulty next_eligible_from that skips the Folded seats only, not the
\* AllIn ones.
next_eligible_from_stops_at_all_in(g, start) ==
    LET n == NumPlayers
        hits == {k \in 1 .. n : g.players[(start + k) % n].status # "Folded"}
    IN IF hits = {} THEN start % n ELSE (start + MinOf(hits)) % n

next_eligible_from(g, start) ==
    LET n == NumPlayers
        hits == {k \in 1 .. n : is_eligible(g, (start + k) % n)}
    IN IF hits = {} THEN start % n ELSE (start + MinOf(hits)) % n

to_call(g, idx) ==
    IF g.street = "Showdown" THEN 0
    ELSE Max2(g.current_bet - g.players[idx].bet, 0)

\* A faulty record_history that keeps the latest entry only.
record_history_keeps_last(g, seat, verb, amount) ==
    [g EXCEPT !.hand_history =
        <<[seat |-> seat, verb |-> verb, amount |-> amount, street |-> g.street]>>]

record_history(g, seat, verb, amount) ==
    [g EXCEPT !.hand_history =
        Append(@, [seat |-> seat, verb |-> verb, amount |-> amount, street |-> g.street])]

\* ------------------------------------------------------------------ payments
Paid(g, idx, amount) == Min2(g.players[idx].stack, amount)

\* A faulty pay_amount that moves the chips off the stack without adding them
\* to the pot.
pay_amount_outside_pot(g, idx, amount) ==
    LET p == g.players[idx]
        paid == Min2(p.stack, amount)
        q == [p EXCEPT !.stack = @ - paid,
                       !.bet = @ + paid,
                       !.contributed = @ + paid,
                       !.status = IF p.stack - paid = 0 THEN "AllIn" ELSE @]
    IN [g EXCEPT !.players[idx] = q]

\* A faulty pay_amount that takes the chips a seat cannot pay from the next
\* seat.
pay_amount_from_neighbour(g, idx, amount) ==
    LET p == g.players[idx]
        paid == Min2(p.stack, amount)
        q == [p EXCEPT !.stack = @ - paid,
                       !.bet = @ + paid,
                       !.contributed = @ + paid,
                       !.status = IF p.stack - paid = 0 THEN "AllIn" ELSE @]
        nb == (idx + 1) % NumPlayers
        owed == Min2(amount - paid, g.players[nb].stack)
    IN [g EXCEPT !.players[idx] = q,
                 !.players[nb].stack = IF nb = idx THEN q.stack ELSE @ - owed,
                 !.pot = @ + paid + owed]

pay_amount(g, idx, amount) ==
    LET p == g.players[idx]
        paid == Min2(p.stack, amount)
        q == [p EXCEPT !.stack = @ - paid,
                       !.bet = @ + paid,
                       !.contributed = @ + paid,
                       !.status = IF p.stack - paid = 0 THEN "AllIn" ELSE @]
    IN [g EXCEPT !.players[idx] = q, !.pot = @ + paid]

post_blinds(g, sb_pos, bb_pos) ==
    LET sb_paid == Paid(g, sb_pos, g.small_blind)
        g1 == pay_amount(g, sb_pos, g.small_blind)
        g2 == [g1 EXCEPT !.players[sb_pos].last_action = Some(<<"SB", sb_paid>>)]
        g3 == record_history(g2, sb_pos, "SmallBlind", Some(sb_paid))
        bb_paid == Paid(g3, bb_pos, g3.big_blind)
        g4 == pay_amount(g3, bb_pos, g3.big_blind)
        g5 == [g4 EXCEPT !.players[bb_pos].last_action = Some(<<"BB", bb_paid>>)]
    IN record_history(g5, bb_pos, "BigBlind", Some(bb_paid))

\* The value post_blinds returns: what the big blind actually paid.
\* A faulty post_blinds that reports the nominal big blind, whatever the big
\* blind seat could pay.
post_blinds_paid_nominal(g, sb_pos, bb_pos) == g.big_blind

post_blinds_paid(g, sb_pos, bb_pos) ==
    Paid(pay_amount(g, sb_pos, g.small_blind), bb_pos, g.big_blind)

\* ------------------------------------------------------------------ new_hand
advance_dealer(g) == [g EXCEPT !.dealer = (g.dealer + 1) % NumPlayers]

reset_hand_state(g) ==
    [g EXCEPT !.deck = DeckSize,
              !.board = 0,
              !.pot = 0,
              !.street = "Preflop",
              !.hand_history = << >>,
              !.current_bet = 0,
              !.min_raise = g.big_blind,
              !.last_raiser = None,
              !.round_starter = g.dealer,
              !.current = g.dealer,
              !.sb_pos = None,
              !.bb_pos = None]

reset_players_for_new_hand(g) ==
    [g EXCEPT !.players =
        [i \in Seats |->
            [g.players[i] EXCEPT !.bet = 0,
                                 !.contributed = 0,
                                 !.hole = FALSE,
                                 !.last_action = None,
                                 !.status = IF g.players[i].stack = 0
                                            THEN "Folded" ELSE "Active"]]]

\* A faulty align_dealer_to_eligible that leaves the button where
\* advance_dealer put it.
align_dealer_to_eligible_stays(g) == g

align_dealer_to_eligible(g) ==
    LET n == NumPlayers
        hits == {k \in 0 .. (n - 1) : is_eligible(g, (g.dealer + k) % n)}
    IN IF hits = {} THEN g
       ELSE [g EXCEPT !.dealer = (g.dealer + MinOf(hits)) % n]

RECURSIVE deal_hole_cards_from(_, _)
deal_hole_cards_from(g, i) ==
    IF i >= NumPlayers THEN g
    ELSE IF g.players[i].status = "Active"
         THEN LET drawn == Min2(g.deck, 2)
                  g1 == [g EXCEPT !.deck = @ - drawn,
                                  !.players[i].hole = (drawn = 2)]
              IN deal_hole_cards_from(g1, i + 1)
         ELSE deal_hole_cards_from(g, i + 1)

deal_hole_cards(g) == deal_hole_cards_from(g, 0)

\* A faulty determine_blind_positions without the heads-up case: the small
\* blind is always the seat after the dealer.
determine_blind_positions_no_heads_up(g, eligible_count) ==
    LET sb == next_eligible_from(g, g.dealer)
    IN <<sb, next_eligible_from(g, sb)>>

determine_blind_positions(g, eligible_count) ==
    IF eligible_count = 2
    THEN <<g.dealer, next_eligible_from(g, g.dealer)>>
    ELSE LET sb == next_eligible_from(g, g.dealer)
         IN <<sb, next_eligible_from(g, sb)>>

determine_first_actor(g, bb_pos, eligible_count) ==
    IF eligible_count = 2 THEN g.dealer ELSE next_eligible_from(g, bb_pos)

setup_preflop(g) ==
    LET eligible_count == count_eligible(g)
    IN IF eligible_count < 2
       THEN [g EXCEPT !.street = "Showdown",
                      !.round_starter = g.dealer,
                      !.current = g.dealer,
                      !.sb_pos = None,
                      !.bb_pos = None]
       ELSE LET pos == determine_blind_positions(g, eligible_count)
                sb_pos == pos[1]
                bb_pos == pos[2]
                g1 == [g EXCEPT !.sb_pos = Some(sb_pos), !.bb_pos = Some(bb_pos)]
                g2 == post_blinds(g1, sb_pos, bb_pos)
                bb_paid == post_blinds_paid(g1, sb_pos, bb_pos)
                first == determine_first_actor(g2, bb_pos, eligible_count)
            IN [g2 EXCEPT !.current_bet = bb_paid,
                          !.min_raise = bb_paid,
                          !.current = first,
                          !.round_starter = first]

new_hand(g) ==
    LET g1 == advance_dealer(g)
        g2 == reset_hand_state(g1)
        g3 == reset_players_for_new_hand(g2)
        g4 == align_dealer_to_eligible(g3)
        g5 == [g4 EXCEPT !.winners = << >>,
                         !.showdown_evals = [i \in Seats |-> None]]
        g6 == deal_hole_cards(g5)
    IN setup_preflop(g6)

\* ------------------------------------------------------------------ showdown
contenders_of(g) == {i \in Seats : g.players[i].status # "Folded" /\ g.players[i].hole}

\* Seats of S in clockwise order starting at the seat left of the dealer
\* (sort_by_key(|i| (i + n - start) % n) with start = (dealer + 1) % n).
RECURSIVE seat_order(_, _)
seat_order(g, S) ==
    IF S = {} THEN << >>
    ELSE LET n == NumPlayers
             start == (g.dealer + 1) % n
             first == CHOOSE i \in S :
                        \A j \in S : (i + n - start) % n <= (j + n - start) % n
         IN <<first>> \o seat_order(g, S \ {first})

\* A faulty complete_board that deals five fresh cards in place of the board
\* there is.
complete_board_redeals(g) ==
    LET drawn == Min2(g.deck, 5)
    IN [g EXCEPT !.deck = @ - drawn, !.board = drawn]

complete_board(g) ==
    LET drawn == Min2(g.deck, Max2(5 - g.board, 0))
    IN [g EXCEPT !.deck = @ - drawn, !.board = @ + drawn]

\* The contribution levels, ascending (sort_unstable + dedup).
RECURSIVE sorted_levels(_)
sorted_levels(S) ==
    IF S = {} THEN << >>
    ELSE <<MinOf(S)>> \o sorted_levels(S \ {MinOf(S)})

RECURSIVE side_pots_from(_, _, _, _)
side_pots_from(g, levels, k, prev) ==
    IF k > Len(levels) THEN << >>
    ELSE LET lvl == levels[k]
             contributors == {i \in Seats : g.players[i].contributed >= lvl
                                            /\ g.players[i].contributed > 0}
             amount == (lvl - prev) * Cardinality(contributors)
             rest == side_pots_from(g, levels, k + 1, lvl)
         IN IF amount > 0
            THEN <<[amount |-> amount, contributors |-> contributors]>> \o rest
            ELSE rest

calculate_side_pots(g) ==
    side_pots_from(g,
        sorted_levels({g.players[i].contributed : i \in Seats} \ {0}), 1, 0)

find_pot_winners(eligible, evals) ==
    {i \in eligible : \A j \in eligible : evals[i] >= evals[j]}

\* A faulty distribute_pot that hands the odd chips to the last winners in
\* seat order instead of the first.
distribute_pot_odd_chips_last(pot_amount, winners, k) ==
    LET per == pot_amount \div Len(winners)
        rem == pot_amount % Len(winners)
    IN IF k > Len(winners) - rem THEN per + 1 ELSE per

\* distribute_pot: the share of the k-th winner (1-based) of `winners`.
distribute_pot(pot_amount, winners, k) ==
    LET per == pot_amount \div Len(winners)
        rem == pot_amount % Len(winners)
    IN IF k <= rem THEN per + 1 ELSE per

sync_pot_with_contributions(g) ==
    [g EXCEPT !.pot = SumOver([i \in Seats |-> g.players[i].contributed], Seats)]

\* A faulty award_pot_to_single_winner that pays the winner the pot less the
\* chips the winner put in.
award_pot_without_own_chips(g, winner_idx, category) ==
    LET amount == g.pot - g.players[winner_idx].contributed
        g1 == [g EXCEPT !.players[winner_idx].stack = @ + amount,
                        !.players[winner_idx].last_action = Some(<<"Win", amount>>)]
        g2 == record_history(g1, winner_idx, "Win", Some(amount))
    IN [g2 EXCEPT !.pot = 0,
                  !.winners = <<winner_idx>>,
                  !.showdown_evals[winner_idx] =
                        IF category # None THEN category ELSE @]

award_pot_to_single_winner(g, winner_idx, category) ==
    LET amount == g.pot
        g1 == [g EXCEPT !.players[winner_idx].stack = @ + amount,
                        !.players[winner_idx].last_action = Some(<<"Win", amount>>)]
        g2 == record_history(g1, winner_idx, "Win", Some(amount))
    IN [g2 EXCEPT !.pot = 0,
                  !.winners = <<winner_idx>>,
                  !.showdown_evals[winner_idx] =
                        IF category # None THEN category ELSE @]

\* winnings / split of finish_showdown step 6, per seat.
pot_share(g, pot, evals, i) ==
    LET eligible == {j \in pot.contributors :
                        g.players[j].status # "Folded" /\ g.players[j].hole}
        pot_winners == seat_order(g, find_pot_winners(eligible, evals))
        at == {k \in 1 .. Len(pot_winners) : pot_winners[k] = i}
    IN IF at = {} THEN 0
       ELSE distribute_pot(pot.amount, pot_winners, MinOf(at))

pot_split(g, pot, evals, i) ==
    LET eligible == {j \in pot.contributors :
                        g.players[j].status # "Folded" /\ g.players[j].hole}
        pot_winners == find_pot_winners(eligible, evals)
    IN i \in pot_winners /\ Cardinality(pot_winners) > 1

RECURSIVE finalize_from(_, _, _, _)
finalize_from(g, i, winnings, split) ==
    IF i >= NumPlayers THEN g
    ELSE IF winnings[i] = 0 THEN finalize_from(g, i + 1, winnings, split)
    ELSE LET amt == winnings[i]
             verb == IF split[i] THEN "Split" ELSE "Win"
             g1 == [g EXCEPT !.players[i].stack = @ + amt,
                             !.players[i].last_action = Some(<<verb, amt>>)]
         IN finalize_from(record_history(g1, i, verb, Some(amt)), i + 1, winnings, split)

finalize_showdown(g, winnings, split) ==
    LET g1 == finalize_from(g, 0, winnings, split)
    IN [g1 EXCEPT !.pot = 0,
                  !.current_bet = 0,
                  !.min_raise = g.big_blind,
                  !.last_raiser = None,
                  !.round_starter = g.current,
                  !.winners = seat_order(g, {i \in Seats : winnings[i] # 0})]

handle_simple_showdown_done(g, contenders) ==
    \/ contenders = {}
    \/ Cardinality(contenders) = 1
    \/ g.board < 5 /\ complete_board(g).board # 5

first_contender(contenders) == MinOf(contenders)

handle_simple_showdown(g, contenders, ev) ==
    LET g0 == [g EXCEPT !.players = [i \in Seats |-> [g.players[i] EXCEPT !.bet = 0]]]
    IN IF contenders = {}
       THEN award_pot_to_single_winner(g0, (g0.dealer + 1) % NumPlayers, None)
       ELSE IF Cardinality(contenders) = 1
       THEN LET i == first_contender(contenders)
            IN award_pot_to_single_winner(g0, i,
                    IF g0.board >= 5 THEN Some(ev[i]) ELSE None)
       ELSE IF g0.board < 5
       THEN LET g1 == complete_board(g0)
            IN IF g1.board # 5
               THEN award_pot_to_single_winner(g1, first_contender(contenders), None)
               ELSE g1
       ELSE g0

finish_showdown(g, ev) ==
    IF SumOver([i \in Seats |-> g.players[i].contributed], Seats) = 0 THEN g
    ELSE
    LET g1 == sync_pot_with_contributions(g)
        contenders == contenders_of(g1)
        g2 == handle_simple_showdown(g1, contenders, ev)
    IN IF handle_simple_showdown_done(g1, contenders) THEN g2
       ELSE
       LET g3 == [g2 EXCEPT !.showdown_evals =
                     [i \in Seats |-> IF i \in contenders THEN Some(ev[i]) ELSE None]]
           side_pots == calculate_side_pots(g3)
           winnings == [i \in Seats |->
                SumOver([k \in 1 .. Len(side_pots) |-> pot_share(g3, side_pots[k], ev, i)],
                        1 .. Len(side_pots))]
           split == [i \in Seats |->
                \E k \in 1 .. Len(side_pots) : pot_split(g3, side_pots[k], ev, i)]
       IN finalize_showdown(g3, winnings, split)

\* ------------------------------------------------------------------ streets
\* A faulty reset_bets_set_current_postflop that starts its scan at the
\* dealer's own seat.
reset_bets_set_current_postflop_from_dealer(g) ==
    LET n == NumPlayers
        g1 == [g EXCEPT !.players =
                 [i \in Seats |-> [g.players[i] EXCEPT !.bet = 0, !.last_action = None]]]
        hits == {k \in 0 .. (n - 1) : is_eligible(g1, (g1.dealer + k) % n)}
        cur == IF hits = {} THEN g1.dealer
               ELSE (g1.dealer + MinOf(hits)) % n
    IN [g1 EXCEPT !.current = cur,
                  !.current_bet = 0,
                  !.min_raise = g.big_blind,
                  !.last_raiser = None,
                  !.round_starter = cur]

reset_bets_set_current_postflop(g) ==
    LET n == NumPlayers
        g1 == [g EXCEPT !.players =
                 [i \in Seats |-> [g.players[i] EXCEPT !.bet = 0, !.last_action = None]]]
        hits == {k \in 0 .. (n - 1) : is_eligible(g1, (g1.dealer + 1 + k) % n)}
        cur == IF hits = {} THEN (g1.dealer + 1) % n
               ELSE (g1.dealer + 1 + MinOf(hits)) % n
    IN [g1 EXCEPT !.current = cur,
                  !.current_bet = 0,
                  !.min_raise = g.big_blind,
                  !.last_raiser = None,
                  !.round_starter = cur]

deal_next_street(g, ev) ==
    CASE g.street = "Preflop" ->
            LET drawn == Min2(g.deck, 3)
            IN reset_bets_set_current_postflop(
                 [g EXCEPT !.deck = @ - drawn, !.board = @ + drawn, !.street = "Flop"])
      [] g.street = "Flop" ->
            IF g.deck > 0
            THEN reset_bets_set_current_postflop(
                   [g EXCEPT !.deck = @ - 1, !.board = @ + 1, !.street = "Turn"])
            ELSE g
      [] g.street = "Turn" ->
            IF g.deck > 0
            THEN reset_bets_set_current_postflop(
                   [g EXCEPT !.deck = @ - 1, !.board = @ + 1, !.street = "River"])
            ELSE g
      [] g.street = "River" -> finish_showdown([g EXCEPT !.street = "Showdown"], ev)
      [] OTHER -> g

should_end_round(g) ==
    IF count_eligible(g) <= 1
    THEN ~ \E i \in Seats : /\ is_eligible(g, i)
                            /\ i = MinOf({j \in Seats : is_eligible(g, j)})
                            /\ g.players[i].bet < g.current_bet
    ELSE /\ \A i \in Seats : is_eligible(g, i) => g.players[i].bet = g.current_bet
         /\ g.current = g.round_starter

\* A faulty maybe_force_showdown that never forces the showdown.
maybe_force_showdown_never(g, ev) == g

maybe_force_showdown(g, ev) ==
    IF g.street = "Showdown" THEN g
    ELSE IF count_eligible(g) > 1 THEN g
    ELSE IF /\ count_eligible(g) = 1
            /\ \E i \in Seats : /\ is_eligible(g, i)
                                /\ i = MinOf({j \in Seats : is_eligible(g, j)})
                                /\ g.players[i].bet < g.current_bet
    THEN g
    ELSE LET g1 == IF Cardinality(contenders_of(g)) > 1 /\ g.board < 5
                   THEN complete_board(g) ELSE g
         IN finish_showdown([g1 EXCEPT !.street = "Showdown"], ev)

progress_round(g, prev_actor, force_next_street, ev) ==
    LET g1 == [g EXCEPT !.current = next_eligible_from(g, prev_actor)]
        g2 == IF should_end_round(g1)
              THEN IF force_next_street THEN deal_next_street(g1, ev)
                   ELSE CASE g1.street \in {"Preflop", "Flop", "Turn"} ->
                                 deal_next_street(g1, ev)
                          [] g1.street = "River" ->
                                 finish_showdown([g1 EXCEPT !.street = "Showdown"], ev)
                          [] OTHER -> g1
              ELSE g1
    IN maybe_force_showdown(g2, ev)

advance_or_move(g, ev) == progress_round(g, g.current, FALSE, ev)

\* ------------------------------------------------------------------ actions
Ok(g) == [g |-> g, res |-> "Ok"]
Err(g, e) == [g |-> g, res |-> e]

\* A faulty ensure_can_act that lets a seat act once the hand is over.
ensure_can_act_after_showdown(g) ==
    IF ~ is_eligible(g, g.current) THEN "PlayerNotActive" ELSE "Ok"

ensure_can_act(g) ==
    IF g.street = "Showdown" THEN "Showdown"
    ELSE IF ~ is_eligible(g, g.current) THEN "PlayerNotActive"
    ELSE "Ok"

action_fold(g, ev) ==
    IF ensure_can_act(g) # "Ok" THEN Err(g, ensure_can_act(g))
    ELSE LET g1 == [g EXCEPT !.players[g.current].status = "Folded",
                             !.players[g.current].last_action = Some(<<"Fold", 0>>)]
             g2 == record_history(g1, g1.current, "Fold", None)
         IN IF count_eligible(g2) <= 1
            THEN Ok(finish_showdown([g2 EXCEPT !.street = "Showdown"], ev))
            ELSE Ok(advance_or_move(g2, ev))

action_check_call(g, ev) ==
    IF ensure_can_act(g) # "Ok" THEN Err(g, ensure_can_act(g))
    ELSE LET tc == to_call(g, g.current)
             idx == g.current
         IN IF tc = 0
            THEN LET g1 == [g EXCEPT !.players[idx].last_action = Some(<<"Check", 0>>)]
                 IN Ok(advance_or_move(record_history(g1, idx, "Check", None), ev))
            ELSE LET paid == Paid(g, idx, tc)
                     g1 == pay_amount(g, idx, tc)
                     g2 == [g1 EXCEPT !.players[idx].last_action = Some(<<"Call", paid>>)]
                 IN Ok(advance_or_move(record_history(g2, idx, "Call", Some(paid)), ev))

\* A faulty update_raise_state that leaves min_raise as it was after a full
\* raise.
update_raise_state_keeps_min_raise(g, raiser_idx, new_bet) ==
    IF new_bet > g.current_bet
    THEN IF new_bet - g.current_bet >= g.min_raise
         THEN [g EXCEPT !.last_raiser = Some(raiser_idx),
                        !.round_starter = raiser_idx,
                        !.current_bet = new_bet]
         ELSE [g EXCEPT !.current_bet = new_bet]
    ELSE g

\* A faulty update_raise_state that treats every raise as a full raise.
update_raise_state_always_reopens(g, raiser_idx, new_bet) ==
    IF new_bet > g.current_bet
    THEN [g EXCEPT !.min_raise = Max2(g.min_raise, new_bet - g.current_bet),
                   !.last_raiser = Some(raiser_idx),
                   !.round_starter = raiser_idx,
                   !.current_bet = new_bet]
    ELSE g

update_raise_state(g, raiser_idx, new_bet) ==
    IF new_bet > g.current_bet
    THEN LET raise_amt == new_bet - g.current_bet
         IN IF raise_amt >= g.min_raise
            THEN [g EXCEPT !.min_raise = Max2(g.min_raise, raise_amt),
                           !.last_raiser = Some(raiser_idx),
                           !.round_starter = raiser_idx,
                           !.current_bet = new_bet]
            ELSE [g EXCEPT !.current_bet = new_bet]
    ELSE g

place_to_amount(g, target_total, verb, label, ev) ==
    LET idx == g.current
        curr == g.players[idx].bet
    IN IF target_total <= curr THEN Err(g, "TargetTooLow")
       ELSE LET need == target_total - curr
                g1 == pay_amount(g, idx, need)
                new_bet == g1.players[idx].bet
                g2 == [g1 EXCEPT !.players[idx].last_action = Some(<<label, new_bet>>)]
                g3 == record_history(g2, idx, verb, Some(new_bet))
                g4 == update_raise_state(g3, idx, new_bet)
            IN Ok(progress_round(g4, idx, TRUE, ev))

action_bet_min(g, ev) ==
    IF ensure_can_act(g) # "Ok" THEN Err(g, ensure_can_act(g))
    ELSE IF g.current_bet > 0 THEN Err(g, "BetNotAllowed")
    ELSE place_to_amount(g, Max2(g.big_blind, 1), "Bet", "Bet", ev)

\* A faulty action_bet that compares the amount with what the seat holds
\* before it compares it with the smallest bet.
action_bet_checks_stack_first(g, amount, ev) ==
    IF ensure_can_act(g) # "Ok" THEN Err(g, ensure_can_act(g))
    ELSE IF g.current_bet > 0 THEN Err(g, "BetNotAllowed")
    ELSE IF amount > g.players[g.current].bet + g.players[g.current].stack
         THEN Err(g, "AmountTooLarge")
    ELSE IF amount < Max2(g.big_blind, 1) THEN Err(g, "AmountTooSmall")
    ELSE place_to_amount(g, amount, "Bet", "Bet", ev)

action_bet(g, amount, ev) ==
    IF ensure_can_act(g) # "Ok" THEN Err(g, ensure_can_act(g))
    ELSE IF g.current_bet > 0 THEN Err(g, "BetNotAllowed")
    ELSE IF amount < Max2(g.big_blind, 1) THEN Err(g, "AmountTooSmall")
    ELSE IF amount > g.players[g.current].bet + g.players[g.current].stack
         THEN Err(g, "AmountTooLarge")
    ELSE place_to_amount(g, amount, "Bet", "Bet", ev)

action_raise_min(g, ev) ==
    IF ensure_can_act(g) # "Ok" THEN Err(g, ensure_can_act(g))
    ELSE IF g.current_bet = 0 THEN Err(g, "RaiseNotAllowed")
    ELSE place_to_amount(g, g.current_bet + g.min_raise, "RaiseTo", "Raise to", ev)

\* A faulty action_raise_to that takes the chips before it finds the raise
\* too small.
action_raise_to_pays_first(g, amount, ev) ==
    IF ensure_can_act(g) # "Ok" THEN Err(g, ensure_can_act(g))
    ELSE IF g.current_bet = 0 THEN Err(g, "RaiseNotAllowed")
    ELSE LET max_total == g.players[g.current].bet + g.players[g.current].stack
             min_target == g.current_bet + g.min_raise
         IN IF amount > max_total THEN Err(g, "AmountTooLarge")
            ELSE IF amount < min_target /\ amount < max_total
                 THEN Err(pay_amount(g, g.current,
                                     Max2(amount - g.players[g.current].bet, 0)),
                          "AmountTooSmall")
            ELSE place_to_amount(g, amount, "RaiseTo", "Raise to", ev)

action_raise_to(g, amount, ev) ==
    IF ensure_can_act(g) # "Ok" THEN Err(g, ensure_can_act(g))
    ELSE IF g.current_bet = 0 THEN Err(g, "RaiseNotAllowed")
    ELSE LET max_total == g.players[g.current].bet + g.players[g.current].stack
             min_target == g.current_bet + g.min_raise
         IN IF amount > max_total THEN Err(g, "AmountTooLarge")
            ELSE IF amount < min_target /\ amount < max_total
                 THEN Err(g, "AmountTooSmall")
            ELSE place_to_amount(g, amount, "RaiseTo", "Raise to", ev)

\* ------------------------------------------------------------------ the state machine
\* What evaluate_holdem can return for the contenders of g: every ranking of
\* them, ties included (strengths 1 .. m with none skipped); a seat that is no
\* contender is never evaluated.
Evals(g) ==
    {ev \in [Seats -> Strengths] :
        /\ \A i \in Seats \ contenders_of(g) : ev[i] = 1
        /\ \A s \in Strengths : (\E i \in Seats : ev[i] = s) =>
                                 \A t \in 1 .. s : \E j \in Seats : ev[j] = t}

ev0 == [i \in Seats |-> 1]

\* The evaluations matter only to a call that resolves a showdown.
EvalsFor(probe) ==
    IF probe.res = "Ok" /\ probe.g.street = "Showdown" THEN Evals(probe.g) ELSE {ev0}

\* The table between two hands: Game::new's state, with the stacks and the
\* dealer button as earlier hands have left them (new_hand resets every other
\* field before it reads it).
TableState(t) ==
    [GameNew(t.starting_stack, t.small_blind, t.big_blind) EXCEPT
        !.dealer = t.dealer,
        !.players = [i \in Seats |-> NewPlayer(StackAt(t, i))]]

\* ---- what an observer of the table has seen (no part of the engine state)
\* stacks0:   the stacks when the hand in progress was dealt
\* cc_run:    how many check_call actions in a row have left the street as it was
\* raise_by:  the seat whose full bet or raise is standing in this betting
\*            round with only calls and folds made since
\* responded: the seats that have called or folded since that bet or raise
\* acted:     the seats that have acted in this betting round
\* barred:    the seats that had acted in this betting round when a short
\*            all-in raise was made (and no full raise since)
Obs0(g) ==
    [ stacks0 |-> [i \in Seats |-> g.players[i].stack],
      cc_run |-> 0, raise_by |-> None, responded |-> {}, acted |-> {}, barred |-> {} ]

IsRaiseKind(kind) == kind \in {"bet_min", "bet", "raise_min", "raise_to"}

\* The bet the actor of g stands at after placing to target (pay_amount pays
\* at most the stack).
NewBet(g, target) ==
    LET p == g.players[g.current]
    IN p.bet + Min2(p.stack, target - p.bet)

Observe(o, g, g2, kind, target) ==
    LET actor == g.current
        closed == g2.street # g.street
        lifts == IsRaiseKind(kind) /\ NewBet(g, target) > g.current_bet
        full == lifts /\ NewBet(g, target) - g.current_bet >= g.min_raise
        short == lifts /\ ~ full
        answers == kind \in {"fold", "check_call"}
    IN [ stacks0 |-> o.stacks0,
         cc_run |-> IF kind = "check_call" /\ ~ closed THEN o.cc_run + 1 ELSE 0,
         raise_by |-> IF closed THEN None
                      ELSE IF full THEN Some(actor)
                      ELSE IF answers THEN o.raise_by
                      ELSE None,
         responded |-> IF closed \/ ~ answers \/ o.raise_by = None THEN {}
                       ELSE o.responded \cup {actor},
         acted |-> IF closed THEN {} ELSE o.acted \cup {actor},
         barred |-> IF closed \/ full THEN {}
                    ELSE IF short THEN o.barred \cup o.acted
                    ELSE o.barred ]

\* ---- the agents that can play a seat (no part of the engine state)
\* pending:        HumanAgent.pending, the queued action
\* next_action_at: BotAgent.next_action_at
\* now:            the wall clock, what Instant::now() returns
\* received:       how many actions HumanAgent::receive has accepted
\* calls:          how many engine action calls HumanAgent::on_turn has made
AgentsIdle ==
    [ pending |-> None, next_action_at |-> None, now |-> 0, received |-> 0, calls |-> 0 ]

\* ---- the cards themselves
\* game holds how many cards the deck and the board hold and which seats hold
\* hole cards; where the cards themselves matter they are followed in
\* cards: deck (Deck.cards, the top last), board (Board) and hole
\*        (Player.hole, per seat), all empty while they are not followed;
\* hand:  the function of the evaluator called (op), its arguments (args)
\*        and what it returned (result, None until it has), op "none" while
\*        the evaluator is not under study.
NoCards == [deck |-> << >>, board |-> << >>, hole |-> [i \in Seats |-> << >>]]
Request(op, args) == [op |-> op, args |-> args, result |-> None]
NoHand == Request("none", << >>)

Init ==
    /\ \E t \in Tables : game = TableState(t)
    /\ hand_started = FALSE
    /\ hands = 0
    /\ obs = Obs0(game)
    /\ agents = AgentsIdle
    /\ cards = NoCards
    /\ hand = NoHand

\* A call of an action method by the driver (App::take_turn), which acts only
\* once a hand has started.  r is the method's result and the state it leaves;
\* a call that returns an ActionError is not a step.
Apply(r, kind, target) ==
    /\ hand_started
    /\ hands <= MaxHands
    /\ Len(game.hand_history) < MaxHistory
    /\ r.res = "Ok"
    /\ game' = r.g
    /\ obs' = Observe(obs, game, r.g, kind, target)
    /\ UNCHANGED <<hand_started, hands, agents, cards, hand>>

\* App::new_hand: refused while a hand is in progress.
NewHand ==
    /\ ~ hand_started \/ game.street = "Showdown"
    /\ hands <= MaxHands
    /\ game' = new_hand(game)
    /\ hand_started' = TRUE
    /\ hands' = hands + 1
    /\ obs' = Obs0(game)
    /\ UNCHANGED <<agents, cards, hand>>

Fold ==
    \E ev \in EvalsFor(action_fold(game, ev0)) :
        Apply(action_fold(game, ev), "fold", 0)

CheckCall ==
    \E ev \in EvalsFor(action_check_call(game, ev0)) :
        Apply(action_check_call(game, ev), "check_call", 0)

BetMin ==
    \E ev \in EvalsFor(action_bet_min(game, ev0)) :
        Apply(action_bet_min(game, ev), "bet_min", Max2(game.big_blind, 1))

Bet ==
    \E amount \in Amounts(game) :
        \E ev \in EvalsFor(action_bet(game, amount, ev0)) :
            Apply(action_bet(game, amount, ev), "bet", amount)

RaiseMin ==
    \E ev \in EvalsFor(action_raise_min(game, ev0)) :
        Apply(action_raise_min(game, ev), "raise_min", game.current_bet + game.min_raise)

RaiseTo ==
    \E amount \in Amounts(game) :
        \E ev \in EvalsFor(action_raise_to(game, amount, ev0)) :
            Apply(action_raise_to(game, amount, ev), "raise_to", amount)

Next ==
    \/ NewHand
    \/ Fold
    \/ CheckCall
    \/ BetMin
    \/ Bet
    \/ RaiseMin
    \/ RaiseTo

Spec == Init /\ [][Next]_vars

\* ------------------------------------------------------------------ the calls a driver can make
Call(op, amount) == [op |-> op, amount |-> amount]

Calls(g) ==
    {Call(op, 0) : op \in {"fold", "check_call", "bet_min", "raise_min"}}
        \cup {Call(op, a) : op \in {"bet", "raise_to"}, a \in Amounts(g)}

\* What the call c returns in g, and the state it leaves.
Do(g, c, ev) ==
    CASE c.op = "fold" -> action_fold(g, ev)
      [] c.op = "check_call" -> action_check_call(g, ev)
      [] c.op = "bet_min" -> action_bet_min(g, ev)
      [] c.op = "bet" -> action_bet(g, c.amount, ev)
      [] c.op = "raise_min" -> action_raise_min(g, ev)
      [] c.op = "raise_to" -> action_raise_to(g, c.amount, ev)

ActionErrors ==
    {"Showdown", "PlayerNotActive", "BetNotAllowed", "RaiseNotAllowed",
     "AmountTooSmall", "AmountTooLarge", "TargetTooLow"}

SumStacks(g) == SumOver([i \in Seats |-> g.players[i].stack], Seats)
SumContributed(g) == SumOver([i \in Seats |-> g.players[i].contributed], Seats)
ActiveSeats(g) == {i \in Seats : g.players[i].status = "Active"}
AllInSeats(g) == {i \in Seats : g.players[i].status = "AllIn"}

\* ------------------------------------------------------------------ claims

\* C1: in every reachable state, a call of any action method (fold,
\* check_call, bet_min, bet(a), raise_min, raise_to(a), any amount a) that
\* returns an ActionError leaves the whole engine state (players, pot, betting
\* fields, street, board, deck, hand history) exactly as it was.
C1_FailedActionChangesNothing ==
    \A c \in Calls(game) :
        LET r == Do(game, c, ev0)
        IN r.res \in ActionErrors => r.g = game

\* C1 witness: in the middle of a hand, the seat to act makes a raise that is
\* refused as too small and a bet that is refused because a bet is standing.
C1_Witness ==
    /\ hand_started
    /\ game.street = "Flop"
    /\ Len(game.hand_history) > 3
    /\ \E a \in Amounts(game) : action_raise_to(game, a, ev0).res = "AmountTooSmall"
    /\ \E a \in Amounts(game) : action_raise_to(game, a, ev0).res = "AmountTooLarge"
    /\ action_bet_min(game, ev0).res = "BetNotAllowed"

\* C2 (as claimed): the stacks and the pot together always hold the chips the
\* table held when the hand was dealt; no blind, call, bet, raise, fold or
\* showdown distribution creates or destroys a chip.
C2_ChipsConserved == SumStacks(game) + game.pot = SumOver(obs.stacks0, Seats)

\* C3 (as claimed): while a hand is in progress check_call is always accepted,
\* and the street moves on before NumPlayers check_call actions in a row have
\* left it where it was.
C3_CheckDownAdvances ==
    (hand_started /\ game.street # "Showdown") =>
        /\ action_check_call(game, ev0).res = "Ok"
        /\ obs.cc_run < NumPlayers

\* C4 (as claimed): once every Active seat other than the seat r whose full
\* bet or raise stands has called or folded, the betting round is closed (the
\* street has moved on), whether or not the raise put r all-in.
C4_RoundClosesAfterCalls ==
    ~ /\ hand_started
      /\ game.street # "Showdown"
      /\ obs.raise_by # None
      /\ \A i \in ActiveSeats(game) : i \in obs.raise_by \/ i \in obs.responded

ShortAllInStep ==
    LET r == game.current
    IN /\ hand_started
       /\ hands' = hands
       /\ game'.street = game.street
       /\ game'.players[r].bet > game.players[r].bet
       /\ game'.players[r].bet > game.current_bet
       /\ game'.players[r].bet - game.current_bet < game.min_raise

C6_LoneActiveActsBeforeShowdown ==
    [][(hand_started /\ hands' = hands
            /\ game.street # "Showdown" /\ game'.street = "Showdown") =>
        ~ \E p \in Seats \ {game.current} :
            /\ ActiveSeats(game') = {p}
            /\ AllInSeats(game') # {}
            /\ game.players[p].bet < game.current_bet]_vars

\* C7 (as claimed): during a betting round no Active seat has a bet above
\* current_bet.
C7_ActiveBetWithinCurrentBet ==
    (hand_started /\ game.street # "Showdown") =>
        \A i \in ActiveSeats(game) : game.players[i].bet <= game.current_bet

\* C8: while the street is not Showdown the pot is the sum of the seats'
\* contributed; once the showdown has distributed, the pot is 0.
C8_PotIsContributions ==
    /\ game.street # "Showdown" => game.pot = SumContributed(game)
    /\ game.street = "Showdown" => game.pot = 0

\* C8 witness: a showdown has paid more than one seat out of a pot that held
\* chips of every seat.
C8_Witness ==
    /\ hand_started
    /\ game.street = "Showdown"
    /\ game.pot = 0
    /\ Len(game.winners) >= 2
    /\ \A i \in Seats : obs.stacks0[i] > 0 => game.players[i].contributed > 0

\* ---- the showdown as the table shows it once the chips have been paid out
\* A contested showdown: the hand is over and two or more seats that have not
\* folded hold cards.
ContestedShowdown ==
    /\ hand_started
    /\ game.street = "Showdown"
    /\ Cardinality(contenders_of(game)) >= 2

\* The chips the showdown paid to seat i.
Won(i) == game.players[i].stack + game.players[i].contributed - obs.stacks0[i]

\* The value the seat's hand was given at the showdown.
EvalAt(i) == CHOOSE s \in game.showdown_evals[i] : TRUE

\* The distinct positive contribution levels, the level below a level, and
\* the chips of the layer between them.
Levels == {game.players[i].contributed : i \in Seats} \ {0}
LevelBelow(l) == MaxOf({0} \cup {m \in Levels : m < l})
LayerChips(l) ==
    (l - LevelBelow(l)) * Cardinality({i \in Seats : game.players[i].contributed >= l})

\* The seats that have not folded and contributed up to level l, and those of
\* them that hold the best hand.
LayerContenders(l) ==
    {i \in contenders_of(game) : game.players[i].contributed >= l}
LayerBest(l) ==
    {i \in LayerContenders(l) : \A j \in LayerContenders(l) : EvalAt(i) >= EvalAt(j)}

\* C9 (as claimed): at a contested showdown the chips of every layer go, all
\* of them, to seats holding the best hand among the seats that have not
\* folded and contributed up to the layer's level: what the seats won can be
\* made up of the layers in that way (for every set S of seats, S won at least
\* the layers whose best hands all sit in S, and the seats together won every
\* layer), so no seat won chips of a layer above its own contribution.
C9_LayersGoToBestHands ==
    ContestedShowdown =>
        /\ \A S \in SUBSET Seats :
              SumOver([i \in Seats |-> Won(i)], S)
                >= SumOver([l \in Levels |-> LayerChips(l)],
                           {l \in Levels : LayerBest(l) \subseteq S})
        /\ SumOver([i \in Seats |-> Won(i)], Seats)
              = SumOver([l \in Levels |-> LayerChips(l)], Levels)

\* How many of the seats of W come before seat i, clockwise from the seat
\* left of the dealer.
ClockwiseFromDealer(i) == (i + NumPlayers - ((game.dealer + 1) % NumPlayers)) % NumPlayers
AheadOf(i, W) ==
    Cardinality({j \in W : ClockwiseFromDealer(j) < ClockwiseFromDealer(i)})

\* The share of seat i in layer l when the layer is tied among the seats of
\* LayerBest(l).
TiedShare(l, i) ==
    LET k == Cardinality(LayerBest(l))
    IN (LayerChips(l) \div k)
        + (IF AheadOf(i, LayerBest(l)) < LayerChips(l) % k THEN 1 ELSE 0)

\* C10: at a contested showdown every seat won, from each layer it holds a
\* best hand of, floor(layer / k) chips, k the number of seats tied for it,
\* and one more chip if fewer than (layer mod k) of the tied seats come before
\* it clockwise from the seat left of the dealer; and nothing else.
C10_TiedLayerSplit ==
    ContestedShowdown =>
        \A i \in Seats :
            Won(i) = SumOver([l \in Levels |-> TiedShare(l, i)],
                             {l \in Levels : i \in LayerBest(l)})

\* C10 witness: a layer was tied between two seats with an odd chip over, and
\* the tied seat that comes first clockwise from the dealer is not the one
\* with the lower seat number; another layer went to a single seat.
C10_Witness ==
    /\ ContestedShowdown
    /\ \E l \in Levels :
          /\ Cardinality(LayerBest(l)) = 2
          /\ LayerChips(l) % 2 = 1
          /\ \E i, j \in LayerBest(l) :
                i < j /\ ClockwiseFromDealer(j) < ClockwiseFromDealer(i)
                      /\ Won(j) > Won(i)
    /\ \E l \in Levels : Cardinality(LayerBest(l)) = 1

\* A step that is a successful call of an action method.
ActionStep == hand_started /\ hands' = hands /\ game' # game

\* No seat of g is left to bet: no seat is Active, or the one Active seat has
\* matched current_bet.
BettingOver(g) ==
    \/ ActiveSeats(g) = {}
    \/ \E p \in Seats : ActiveSeats(g) = {p} /\ g.players[p].bet = g.current_bet

\* C11: a successful action that leaves no Active seat, or one Active seat
\* that has matched current_bet, while two or more seats that have not folded
\* hold cards, leaves the engine at Showdown with 5 board cards and pot 0.
C11_ForcedShowdown ==
    [][(ActionStep /\ BettingOver(game') /\ Cardinality(contenders_of(game')) >= 2) =>
        /\ game'.street = "Showdown"
        /\ game'.board = 5
        /\ game'.pot = 0]_vars

\* C11 witness: every seat still in the hand went all-in before the flop; the
\* board has been run out and the pot paid with no action after the preflop
\* round.
C11_Witness ==
    /\ hand_started
    /\ game.street = "Showdown"
    /\ ActiveSeats(game) = {}
    /\ Cardinality(AllInSeats(game)) >= 2
    /\ game.board = 5
    /\ game.pot = 0
    /\ \A k \in 1 .. Len(game.hand_history) :
          game.hand_history[k].street \in {"Preflop", "Showdown"}
    /\ \E k \in 1 .. Len(game.hand_history) : game.hand_history[k].verb = "Call"

\* The seats of g that have not folded.
NotFolded(g) == {i \in Seats : g.players[i].status # "Folded"}

\* C12: a fold that leaves exactly one seat that has not folded ends the hand
\* at once: the street is Showdown, no board card has been dealt since, that
\* seat's stack has grown by the whole pot (the sum of every seat's
\* contributed, its own included), and winners is that seat alone.
C12_FoldToLastPlayer ==
    [][(ActionStep /\ game'.players[game.current].status = "Folded") =>
        \A w \in Seats :
            NotFolded(game') = {w} =>
                /\ game'.street = "Showdown"
                /\ game'.board = game.board
                /\ game'.players[w].stack = game.players[w].stack + SumContributed(game)
                /\ game'.pot = 0
                /\ game'.winners = <<w>>]_vars

\* C12 witness: on the flop every seat but one has folded; the hand is over
\* with three board cards and the last seat has been paid the whole pot,
\* which held chips of other seats.
C12_Witness ==
    /\ hand_started
    /\ game.street = "Showdown"
    /\ game.board = 3
    /\ \E w \in Seats :
          /\ NotFolded(game) = {w}
          /\ game.winners = <<w>>
          /\ Won(w) = SumContributed(game)
          /\ Won(w) > game.players[w].contributed
    /\ game.hand_history[Len(game.hand_history) - 1].verb = "Fold"

\* C13 (as claimed): in every state, after new_hand, after every action and
\* after the showdown has paid out, a seat whose status is AllIn has stack 0.
C13_AllInHasNoStack ==
    \A i \in AllInSeats(game) : game.players[i].stack = 0

\* A successful bet or raise that lifts the actor's bet above current_bet and
\* leaves the betting round open.
LiftStep ==
    /\ ActionStep
    /\ game'.street = game.street
    /\ game'.players[game.current].bet > game.players[game.current].bet
    /\ game'.players[game.current].bet > game.current_bet

\* C14: after a bet or raise to new_bet > current_bet that leaves the round
\* open, with raise_amt = new_bet - (the old current_bet): if raise_amt >=
\* min_raise then min_raise is max(old min_raise, raise_amt) and last_raiser
\* and round_starter are the actor; otherwise min_raise, last_raiser and
\* round_starter are as before; either way current_bet is new_bet.
C14_RaiseStateUpdate ==
    [][LiftStep =>
        LET actor == game.current
            new_bet == game'.players[actor].bet
            raise_amt == new_bet - game.current_bet
        IN /\ game'.current_bet = new_bet
           /\ raise_amt >= game.min_raise =>
                /\ game'.min_raise = Max2(game.min_raise, raise_amt)
                /\ game'.last_raiser = Some(actor)
                /\ game'.round_starter = actor
           /\ raise_amt < game.min_raise =>
                /\ game'.min_raise = game.min_raise
                /\ game'.last_raiser = game.last_raiser
                /\ game'.round_starter = game.round_starter]_vars

\* C14 witness: a raise of more than min_raise stands: the raiser is
\* last_raiser and round_starter, min_raise has grown to the size of the
\* raise, and another seat is to act.
C14_Witness ==
    /\ hand_started
    /\ game.street \notin {"Showdown"}
    /\ game.min_raise > game.big_blind
    /\ \E r \in Seats \ {game.current} :
          /\ game.last_raiser = Some(r)
          /\ game.round_starter = r
          /\ game.current_bet = game.players[r].bet
          /\ game.hand_history[Len(game.hand_history)].verb = "RaiseTo"
          /\ game.hand_history[Len(game.hand_history)].seat = r
    /\ is_eligible(game, game.current)

\* No bet or raise has been made in the hand so far.
Unraised(g) ==
    \A k \in 1 .. Len(g.hand_history) : g.hand_history[k].verb \notin {"Bet", "RaiseTo"}

\* C15 (as claimed): in a preflop round of calls, checks and folds only, an
\* action is followed by the flop exactly when every Active seat, the big
\* blind included, has had a turn: not before, and at once after the last of
\* them has acted.
C15_UnraisedPreflopCloses ==
    [][(ActionStep /\ game.street = "Preflop" /\ Unraised(game')
            /\ game'.street \in {"Preflop", "Flop"}) =>
        (game'.street = "Flop"
            <=> ActiveSeats(game') \subseteq (obs.acted \cup {game.current}))]_vars

\* Seat c is the nearest Active seat of g clockwise after seat a: it is
\* Active and every seat passed on the way from a to c is not.
NearestActiveAfter(g, a, c) ==
    \E k \in 1 .. NumPlayers :
        /\ c = (a + k) % NumPlayers
        /\ g.players[c].status = "Active"
        /\ \A m \in 1 .. (k - 1) : g.players[(a + m) % NumPlayers].status # "Active"

\* C16: after a successful action that leaves the street as it was (the
\* betting round is not closed and the hand is not over), current is the
\* nearest Active seat clockwise after the seat that acted, every Folded and
\* AllIn seat on the way skipped.
C16_TurnPassesClockwise ==
    [][(ActionStep /\ game'.street = game.street) =>
        NearestActiveAfter(game', game.current, game'.current)]_vars

\* C16 witness: the seat that acted last is followed clockwise by an AllIn
\* seat, which the turn has skipped.
C16_Witness ==
    /\ hand_started
    /\ game.street # "Showdown"
    /\ Len(game.hand_history) > 2
    /\ LET last == game.hand_history[Len(game.hand_history)]
           a == last.seat
       IN /\ last.street = game.street
          /\ last.verb \in {"Call", "Check", "Fold", "Bet", "RaiseTo"}
          /\ game.players[(a + 1) % NumPlayers].status = "AllIn"
          /\ game.current = (a + 2) % NumPlayers
          /\ game.current # a
          /\ is_eligible(game, game.current)

\* A step that is a call of new_hand.
NewHandStep == hands' = hands + 1

\* The seats that hold chips in g.
Funded(g) == {i \in Seats : g.players[i].stack > 0}

\* Seat c is the nearest seat clockwise after seat a that holds chips in g.
NextFunded(g, a, c) ==
    \E k \in 1 .. NumPlayers :
        /\ c = (a + k) % NumPlayers
        /\ c \in Funded(g)
        /\ \A m \in 1 .. (k - 1) : (a + m) % NumPlayers \notin Funded(g)

\* Seat s has posted the small blind and seat b the big blind of the hand of g.
BlindsPostedBy(g, s, b) ==
    /\ g.sb_pos = Some(s)
    /\ g.bb_pos = Some(b)
    /\ Len(g.hand_history) = 2
    /\ g.hand_history[1].seat = s /\ g.hand_history[1].verb = "SmallBlind"
    /\ g.hand_history[2].seat = b /\ g.hand_history[2].verb = "BigBlind"

\* C17: after new_hand with at least two seats holding chips: with exactly two,
\* the dealer posts the small blind, the other seat holding chips the big
\* blind, and the dealer is first to act; with three or more, the small blind
\* is the next seat holding chips clockwise from the dealer, the big blind the
\* next after the small blind, and the first to act the next after the big
\* blind.
C17_BlindPositions ==
    [][(NewHandStep /\ Cardinality(Funded(game)) >= 2) =>
        LET d == game'.dealer
        IN IF Cardinality(Funded(game)) = 2
           THEN \E b \in Seats :
                    /\ Funded(game) = {d, b}
                    /\ b # d
                    /\ BlindsPostedBy(game', d, b)
                    /\ game'.current = d
           ELSE \E s, b, f \in Seats :
                    /\ NextFunded(game, d, s)
                    /\ NextFunded(game, s, b)
                    /\ NextFunded(game, b, f)
                    /\ BlindsPostedBy(game', s, b)
                    /\ game'.current = f]_vars

\* C17 witness: a heads-up hand has just been dealt at a table with a busted
\* seat between the dealer and the other player: the dealer is the small blind
\* and first to act, the big blind is two seats on.
C17_Witness ==
    /\ hand_started
    /\ game.street = "Preflop"
    /\ Cardinality({i \in Seats : obs.stacks0[i] > 0}) = 2
    /\ obs.stacks0[(game.dealer + 1) % NumPlayers] = 0
    /\ BlindsPostedBy(game, game.dealer, (game.dealer + 2) % NumPlayers)
    /\ game.current = game.dealer

\* Seat i, asked for amount by new_hand, has paid what its stack allowed into
\* the pot of g2, and is AllIn exactly if that emptied its stack (g is the
\* table new_hand was called on).
BlindPaid(g, g2, i, amount) ==
    LET paid == Min2(g.players[i].stack, amount)
    IN /\ g2.players[i].contributed = paid
       /\ g2.players[i].bet = paid
       /\ g2.players[i].stack = g.players[i].stack - paid
       /\ g2.players[i].status = (IF g2.players[i].stack = 0 THEN "AllIn" ELSE "Active")

\* C18: after new_hand with at least two seats holding chips, the small blind
\* seat has paid min(stack, small_blind) and the big blind seat
\* min(stack, big_blind) into the pot, a blind left with no stack is AllIn,
\* current_bet and min_raise are both what the big blind actually paid,
\* last_raiser is none and round_starter is current.
C18_BlindsPosted ==
    [][(NewHandStep /\ Cardinality(Funded(game)) >= 2) =>
        \E s, b \in Seats :
            /\ s # b
            /\ game'.sb_pos = Some(s)
            /\ game'.bb_pos = Some(b)
            /\ BlindPaid(game, game', s, game.small_blind)
            /\ BlindPaid(game, game', b, game.big_blind)
            /\ game'.pot = game'.players[s].contributed + game'.players[b].contributed
            /\ game'.current_bet = Min2(game.players[b].stack, game.big_blind)
            /\ game'.min_raise = game'.current_bet
            /\ game'.last_raiser = None
            /\ game'.round_starter = game'.current]_vars

\* C18 witness: a hand has just been dealt in which the big blind seat could
\* not cover the big blind: it is AllIn and current_bet and min_raise are what
\* it paid.
C18_Witness ==
    /\ hand_started
    /\ game.street = "Preflop"
    /\ Len(game.hand_history) = 2
    /\ \E b \in game.bb_pos :
        /\ game.players[b].status = "AllIn"
        /\ game.players[b].contributed = obs.stacks0[b]
        /\ game.players[b].contributed < game.big_blind
        /\ game.current_bet = game.players[b].contributed
        /\ game.min_raise = game.current_bet
    /\ game.last_raiser = None
    /\ game.round_starter = game.current

\* The street dealt after street st.
StreetAfter(st) ==
    CASE st = "Preflop" -> "Flop"
      [] st = "Flop" -> "Turn"
      [] st = "Turn" -> "River"
      [] OTHER -> "Showdown"

\* A step that closes the betting round of Preflop, Flop or Turn and deals the
\* next street, with two or more Active players to bet on it.
RoundClosesStep ==
    /\ ActionStep
    /\ game.street \in {"Preflop", "Flop", "Turn"}
    /\ game'.street = StreetAfter(game.street)
    /\ Cardinality(ActiveSeats(game')) >= 2

\* C19: when a betting round closes on Preflop, Flop or Turn with two or more
\* Active players, the next street starts with every bet 0, current_bet 0,
\* min_raise the big blind, no last_raiser, and current and round_starter both
\* the first Active seat clockwise from the dealer (heads-up, the seat that is
\* not the dealer).
C19_NextStreetStart ==
    [][RoundClosesStep =>
        /\ \A i \in Seats : game'.players[i].bet = 0
        /\ game'.current_bet = 0
        /\ game'.min_raise = game'.big_blind
        /\ game'.last_raiser = None
        /\ game'.round_starter = game'.current
        /\ NearestActiveAfter(game', game'.dealer, game'.current)
        /\ (ActiveSeats(game') = {game'.dealer, game'.current} =>
                game'.current # game'.dealer)]_vars

\* C19 witness: a street after the flop has just been dealt with the seat
\* after the dealer out of the betting: two seats are Active, one of them the
\* dealer, and the other one is first to act.
C19_Witness ==
    /\ hand_started
    /\ game.street \in {"Flop", "Turn", "River"}
    /\ game.hand_history[Len(game.hand_history)].street # game.street
    /\ game.players[(game.dealer + 1) % NumPlayers].status # "Active"
    /\ game.current # game.dealer
    /\ ActiveSeats(game) = {game.dealer, game.current}
    /\ game.round_starter = game.current
    /\ game.current_bet = 0
    /\ game.min_raise = game.big_blind
    /\ \A i \in Seats : game.players[i].bet = 0

\* The seats that had no chips when the hand in progress was dealt.
BustedSeats == {i \in Seats : obs.stacks0[i] = 0}

\* Seat i sits the hand of g out: Folded, without hole cards, no chips put in
\* and neither blind posted.
SitsOut(g, i) ==
    /\ g.players[i].status = "Folded"
    /\ ~ g.players[i].hole
    /\ g.players[i].bet = 0
    /\ g.players[i].contributed = 0
    /\ g.sb_pos # Some(i)
    /\ g.bb_pos # Some(i)

\* C20: a seat with stack 0 when new_hand is called is Folded for that hand,
\* gets no hole cards and posts no blind, and in every state of the hand, from
\* new_hand through the showdown, neither dealer nor current is that seat.
C20_BustedSeatSitsOut ==
    hand_started =>
        \A i \in BustedSeats :
            /\ SitsOut(game, i)
            /\ game.dealer # i
            /\ game.current # i

\* C21: on each new_hand with at least one seat holding chips, the new dealer
\* is the first seat holding chips found clockwise from the seat after the
\* previous dealer, wrapping around: the button moves by one seat that is dealt
\* in and never rests on a seat that sits out.
C21_ButtonMovesToFundedSeat ==
    [][(NewHandStep /\ Funded(game) # {}) =>
        /\ NextFunded(game, game.dealer, game'.dealer)
        /\ game.players[game'.dealer].stack > 0]_vars

\* C21 witness: a second hand has just been dealt with the button on a seat
\* whose right-hand neighbour had no chips and sits out.
C21_Witness ==
    /\ hand_started
    /\ hands = 2
    /\ game.street = "Preflop"
    /\ Len(game.hand_history) = 2
    /\ obs.stacks0[game.dealer] > 0
    /\ obs.stacks0[(game.dealer + NumPlayers - 1) % NumPlayers] = 0
    /\ game.players[(game.dealer + NumPlayers - 1) % NumPlayers].status = "Folded"

\* ---- a table with a big blind of 3
\* Game::new(3 seats, starting stack 4, small blind 1, big blind 3) after a
\* hand in which seat 1 folds, seat 2 raises all-in to 4 and seat 0 calls and
\* wins: seat 2 is busted and the last dealer was seat 1.  In the next hand
\* seat 1, once it has paid the big blind, holds less than the smallest bet.
Blind3Table == Table(<<8, 4, 0>>, 1, 4, 1, 3)

InitBlind3 ==
    /\ game = TableState(Blind3Table)
    /\ hand_started = FALSE
    /\ hands = 0
    /\ obs = Obs0(game)
    /\ agents = AgentsIdle
    /\ cards = NoCards
    /\ hand = NoHand

SpecBlind3 == InitBlind3 /\ [][Next]_vars

\* The seat to act in g can act: ensure_can_act lets it through.
CanAct(g) == ensure_can_act(g) = "Ok"

\* The most the seat to act in g can have in front of it: its bet and its stack.
AllInTotal(g) == g.players[g.current].bet + g.players[g.current].stack

\* What raise_to(a) and bet(a) return in g.
RaiseToResult(g, a) == action_raise_to(g, a, ev0).res
BetResult(g, a) == action_bet(g, a, ev0).res

\* The errors of raise_to(a) facing a bet: too large above the all-in total,
\* otherwise too small below current_bet + min_raise unless a is the all-in
\* total.
RaiseToErrors(g, a) ==
    g.current_bet > 0 =>
        /\ a > AllInTotal(g) => RaiseToResult(g, a) = "AmountTooLarge"
        /\ (a <= AllInTotal(g) /\ a < g.current_bet + g.min_raise /\ a # AllInTotal(g))
                => RaiseToResult(g, a) = "AmountTooSmall"

\* C22 (as stated): raise_to(a) by the Active seat to act facing a bet fails
\* with AmountTooLarge when a > bet + stack, and otherwise with AmountTooSmall
\* when a < current_bet + min_raise unless a is the all-in total bet + stack;
\* bet(a) facing no bet fails with AmountTooSmall when a < max(big_blind, 1)
\* and with AmountTooLarge when a > bet + stack.
C22_AmountErrors ==
    CanAct(game) =>
        \A a \in Amounts(game) :
            /\ RaiseToErrors(game, a)
            /\ game.current_bet = 0 =>
                /\ a < Max2(game.big_blind, 1) => BetResult(game, a) = "AmountTooSmall"
                /\ a > AllInTotal(game) => BetResult(game, a) = "AmountTooLarge"

\* C22 (amended): as stated, except that bet(a) fails with AmountTooLarge when
\* a > bet + stack only if a is not below max(big_blind, 1): an amount that is
\* both below the smallest bet and above what the seat holds is reported as
\* AmountTooSmall.
C22_AmountErrorsInOrder ==
    CanAct(game) =>
        \A a \in Amounts(game) :
            /\ RaiseToErrors(game, a)
            /\ game.current_bet = 0 =>
                /\ a < Max2(game.big_blind, 1) => BetResult(game, a) = "AmountTooSmall"
                /\ (a >= Max2(game.big_blind, 1) /\ a > AllInTotal(game))
                        => BetResult(game, a) = "AmountTooLarge"

\* C22 witness: the seat to act faces no bet and holds less than the smallest
\* bet; an amount above what it holds and below the smallest bet is refused as
\* AmountTooSmall.
C22_Witness ==
    /\ hand_started
    /\ CanAct(game)
    /\ game.current_bet = 0
    /\ \E a \in Amounts(game) :
        /\ a > AllInTotal(game)
        /\ a < Max2(game.big_blind, 1)
        /\ BetResult(game, a) = "AmountTooSmall"

\* The entry a successful action of this step has appended to the hand
\* history for the seat that acted.
ActionEntry == game'.hand_history[Len(game.hand_history) + 1]

\* A step that is a successful raise_to or raise_min.
RaiseStep ==
    /\ ActionStep
    /\ Len(game'.hand_history) > Len(game.hand_history)
    /\ ActionEntry.verb = "RaiseTo"
    /\ ActionEntry.seat = game.current

\* C23: a raise whose target is not strictly above the current bet fails with
\* TargetTooLow: every successful raise_to or raise_min leaves the bet of the
\* seat that raised strictly greater than the current_bet in force before the
\* call.
C23_RaiseExceedsCurrentBet ==
    [][RaiseStep => \A new_bet \in ActionEntry.amount : new_bet > game.current_bet]_vars

\* The amount bet_min bets.
MinBet(g) == Max2(g.big_blind, 1)

\* C24: in every state bet_min behaves exactly like bet(max(big_blind, 1)):
\* both calls return the same result, the same error or success, and on
\* success leave the same state.
C24_BetMinIsBetOfMinimum ==
    \A ev \in Evals(game) :
        LET m == action_bet_min(game, ev)
            b == action_bet(game, MinBet(game), ev)
        IN /\ m.res = b.res
           /\ m.res = "Ok" => m.g = b.g

\* The streets a hand that is on street st can be on after one more action.
StreetsAhead(st) == {st, StreetAfter(st), "Showdown"}

\* Every action call is refused in g with ActionError::Showdown and leaves g
\* as it is.
HandOver(g) ==
    \A c \in Calls(g) : Do(g, c, ev0).res = "Showdown" /\ Do(g, c, ev0).g = g

\* C25: within a hand the street only moves forward, in the order Preflop,
\* Flop, Turn, River, Showdown, possibly straight to Showdown, never backward;
\* and once the street is Showdown every action call fails with
\* ActionError::Showdown and leaves the state unchanged, until new_hand.
C25_StreetMovesForward ==
    /\ [][ActionStep => (game.street # "Showdown" /\ game'.street \in StreetsAhead(game.street))]_vars
    /\ [](game.street = "Showdown" => HandOver(game))

\* C25 witness: a hand that was bet on every street is over, the seat current
\* points at is Active with chips, and every call is refused.
C25_Witness ==
    /\ hand_started
    /\ game.street = "Showdown"
    /\ \A st \in {"Preflop", "Flop", "Turn", "River"} :
        \E k \in 1 .. Len(game.hand_history) :
            /\ game.hand_history[k].street = st
            /\ game.hand_history[k].verb \in {"Check", "Call", "Bet", "RaiseTo", "Fold"}
    /\ game.players[game.current].status = "Active"
    /\ game.players[game.current].stack > 0
    /\ HandOver(game)

\* The number of board cards a betting street is played with.
BoardSize(st) ==
    CASE st = "Preflop" -> 0
      [] st = "Flop" -> 3
      [] st = "Turn" -> 4
      [] st = "River" -> 5

\* C26: in every reachable state the board holds exactly 0 cards on Preflop, 3
\* on Flop, 4 on Turn and 5 on River, and within a hand the board only grows:
\* an action leaves the cards there are in place and adds to them only cards
\* drawn from the deck (the board is its length here: the engine changes it
\* within a hand by push and extend alone).
C26_BoardGrowsWithStreet ==
    /\ [](game.street # "Showdown" => game.board = BoardSize(game.street))
    /\ [][ActionStep => /\ game'.board >= game.board
                        /\ game'.board <= 5
                        /\ game.deck - game'.deck = game'.board - game.board]_vars

\* C26 witness: the river is being bet with five cards on the board, all of
\* them drawn from the deck after the hole cards.
C26_Witness ==
    /\ hand_started
    /\ game.street = "River"
    /\ game.board = 5
    /\ game.deck = DeckSize - 5 - 2 * Cardinality({i \in Seats : game.players[i].hole})
    /\ \E k \in 1 .. Len(game.hand_history) : game.hand_history[k].street = "Turn"

\* The hand history of g2 starts with the whole hand history of g.
HistoryKept(g, g2) ==
    /\ Len(g2.hand_history) >= Len(g.hand_history)
    /\ \A k \in 1 .. Len(g.hand_history) : g2.hand_history[k] = g.hand_history[k]

\* The hand history new_hand leaves in g: the SmallBlind and the BigBlind
\* posting, tagged Preflop, and nothing else.
BlindsRecorded(g) ==
    /\ Len(g.hand_history) = 2
    /\ g.hand_history[1].verb = "SmallBlind"
    /\ g.hand_history[2].verb = "BigBlind"
    /\ \A k \in 1 .. 2 : g.hand_history[k].street = "Preflop"
    /\ g.sb_pos = Some(g.hand_history[1].seat)
    /\ g.bb_pos = Some(g.hand_history[2].seat)

\* What a successful action of the seat to act in g has added to the hand
\* history by g2: one entry for that seat tagged with the street of g, and
\* after it only Win and Split entries tagged Showdown, and those only if the
\* hand is over.
ActionRecorded(g, g2) ==
    LET n == Len(g.hand_history)
        h == g2.hand_history
    IN /\ Len(h) >= n + 1
       /\ h[n + 1].seat = g.current
       /\ h[n + 1].verb \in {"Fold", "Check", "Call", "Bet", "RaiseTo"}
       /\ h[n + 1].street = g.street
       /\ \A k \in (n + 2) .. Len(h) :
            /\ h[k].verb \in {"Win", "Split"}
            /\ h[k].street = "Showdown"
            /\ g2.street = "Showdown"

\* C27: within a hand the hand history is append-only: new_hand clears it and
\* records the SmallBlind and BigBlind postings, tagged Preflop, as its first
\* two entries; every successful action appends exactly one entry for the seat
\* that acted (Fold, Check, Call, Bet or RaiseTo) tagged with the street the
\* action was taken on, followed only by Win and Split entries tagged Showdown
\* if the hand ends; earlier entries are never changed or removed.
C27_HistoryAppendOnly ==
    [][/\ NewHandStep => BlindsRecorded(game')
       /\ ActionStep => (HistoryKept(game, game') /\ ActionRecorded(game, game'))]_vars

\* C27 (amended): as stated, except that new_hand records the two blind
\* postings only when at least two seats hold chips; with fewer there is no
\* hand to play, no blind is posted and new_hand leaves the hand history
\* empty.
C27_HistoryAppendOnlyOnceDealt ==
    [][/\ NewHandStep => IF Cardinality(Funded(game)) >= 2
                         THEN BlindsRecorded(game')
                         ELSE game'.hand_history = << >>
       /\ ActionStep => (HistoryKept(game, game') /\ ActionRecorded(game, game'))]_vars

\* C27 witness: a hand bet beyond the flop is over: its history is the two
\* blind postings, then the entries of the actions, the last of them followed
\* by two or more Win or Split entries.
C27_Witness ==
    /\ hand_started
    /\ game.street = "Showdown"
    /\ Len(game.hand_history) >= 5
    /\ BlindsRecorded([game EXCEPT !.hand_history = SubSeq(@, 1, 2)])
    /\ \E n \in 3 .. Len(game.hand_history) :
        /\ Len(game.hand_history) >= n + 2
        /\ \A k \in 3 .. n :
            game.hand_history[k].verb \in {"Fold", "Check", "Call", "Bet", "RaiseTo"}
        /\ game.hand_history[n].street \in {"Flop", "Turn", "River"}
        /\ \A k \in (n + 1) .. Len(game.hand_history) :
            /\ game.hand_history[k].verb \in {"Win", "Split"}
            /\ game.hand_history[k].street = "Showdown"

\* ------------------------------------------------------------------ agents
\* GameEngine::num_players: the number of seats at the table.
num_players(g) == NumPlayers

\* A faulty HumanAgent::receive that replaces the action already queued.
HumanAgent_receive_overwrites(a, action) ==
    [agent |-> [a EXCEPT !.pending = Some(action)], accepted |-> TRUE]

\* HumanAgent::receive: what the agent is left as, and what the call returns.
HumanAgent_receive(a, action) ==
    IF a.pending # None
    THEN [agent |-> a, accepted |-> FALSE]
    ELSE [agent |-> [a EXCEPT !.pending = Some(action)], accepted |-> TRUE]

\* What on_turn returns when the agent has not acted.
NotActed(a, g) == [agent |-> a, g |-> g, res |-> "Ok(false)", called |-> FALSE]

\* What on_turn returns once the engine has answered the call c with r:
\* Ok(true), or the engine's error.
Called(a, r) ==
    [agent |-> a, g |-> r.g, called |-> TRUE,
     res |-> IF r.res = "Ok" THEN "Ok(true)" ELSE r.res]

\* A faulty HumanAgent::on_turn that plays the queued action whichever seat it
\* is called for.
HumanAgent_on_turn_for_any_seat(a, g, seat, ev) ==
    IF g.street = "Showdown" THEN NotActed([a EXCEPT !.pending = None], g)
    ELSE IF a.pending # None
    THEN Called([a EXCEPT !.pending = None], Do(g, CHOOSE c \in a.pending : TRUE, ev))
    ELSE NotActed(a, g)

\* HumanAgent::on_turn.
HumanAgent_on_turn(a, g, seat, ev) ==
    IF g.street = "Showdown" THEN NotActed([a EXCEPT !.pending = None], g)
    ELSE IF g.current # seat THEN NotActed(a, g)
    ELSE IF a.pending # None
    THEN Called([a EXCEPT !.pending = None], Do(g, CHOOSE c \in a.pending : TRUE, ev))
    ELSE NotActed(a, g)

\* choose_delay_ms: any delay between the profile's min_delay_ms and
\* max_delay_ms, here 0 and MaxDelay.
Delays == 0 .. MaxDelay

\* round(m * f) = r for some factor f between lo / 10000 and hi / 10000.
RoundsTo(m, r, lo, hi) ==
    /\ 2 * m * lo < (2 * r + 1) * 10000
    /\ 2 * m * hi >= (2 * r - 1) * 10000

\* The sizes round(m * base_factor * scale) can take, base_factor one of the
\* three of the list and scale between the two bounds (aggression is clamped
\* to 0.05 .. 0.95), all in 1 / 10000.
Sizes(m, factors, scale_lo, scale_hi) ==
    {r \in 0 .. (2 * m + 1) :
        \E f \in factors :
            RoundsTo(m, r, (f * scale_lo) \div 10000, (f * scale_hi) \div 10000)}

\* choose_raise_target, for every strength and aggression.
choose_raise_target(g, seat) ==
    LET p == g.players[seat]
        min_raise == Max2(g.min_raise, 1)
        max_total == p.bet + p.stack
        all_in == IF p.stack <= g.pot + to_call(g, seat) THEN {max_total} ELSE {}
        raises == Sizes(Max2(g.pot, g.current_bet), {5000, 7000, 10000}, 9150, 11850)
    IN IF max_total <= g.current_bet + 1 THEN {max_total}
       ELSE all_in \cup
            {Min2(g.current_bet + Max2(min_raise, raise), max_total) : raise \in raises}

\* choose_bet_target, for every strength and aggression.
choose_bet_target(g, seat) ==
    LET p == g.players[seat]
        min_bet == Max2(g.min_raise, 1)
        max_total == p.bet + p.stack
        all_in == IF p.stack <= g.pot + to_call(g, seat) THEN {max_total} ELSE {}
        sizes == IF g.pot = 0 THEN {min_bet}
                 ELSE Sizes(g.pot, {3300, 6000, 9000}, 8200, 11800)
    IN IF max_total <= min_bet THEN {max_total}
       ELSE all_in \cup {Min2(Max2(size, min_bet), max_total) : size \in sizes}

\* BotPolicy::decide, for every hand the seat can hold and every draw of the
\* random generator: facing a bet the bot folds, raises or calls; with nothing
\* to call it raises (bets, when there is no bet) or checks.
BotDecisions(g, seat) ==
    IF to_call(g, seat) > 0
    THEN {Call("fold", 0), Call("check_call", 0)}
            \cup {Call("raise_to", t) : t \in choose_raise_target(g, seat)}
    ELSE IF g.current_bet > 0
    THEN {Call("check_call", 0)} \cup {Call("raise_to", t) : t \in choose_raise_target(g, seat)}
    ELSE {Call("check_call", 0)} \cup {Call("bet", t) : t \in choose_bet_target(g, seat)}

\* BotAgent::on_turn, the delay choose_delay_ms draws and the decision
\* BotPolicy::decide takes given.
BotAgent_on_turn(a, g, seat, delay, decision, ev) ==
    IF g.street = "Showdown" THEN NotActed(a, g)
    ELSE IF g.current # seat THEN NotActed(a, g)
    ELSE IF delay > 0 /\ a.next_action_at = None
    THEN NotActed([a EXCEPT !.next_action_at = Some(a.now + delay)], g)
    ELSE IF delay > 0 /\ \E next \in a.next_action_at : a.now < next
    THEN NotActed(a, g)
    ELSE LET a1 == [a EXCEPT !.next_action_at = None]
         IN IF /\ g.street = "Preflop"
               /\ num_players(g) = 2
               /\ g.current_bet = g.min_raise
               /\ to_call(g, seat) > 0
            THEN Called(a1, action_check_call(g, ev))
            ELSE IF ~ g.players[seat].hole THEN NotActed(a1, g)
            ELSE Called(a1, Do(g, decision, ev))

\* ---- a table played by agents
\* Game::new(3 seats, starting stack 2, small blind 1, big blind 2) after two
\* hands: in the first seat 1 folds and the big blind (seat 0) wins the small
\* blind; in the second seat 2 calls all-in for 1, seat 0 folds its small
\* blind and seat 1 wins.  Seat 2 is busted, the last dealer was seat 2, and
\* the next hand is heads-up between seats 0 and 1.
AgentsTable == Table(<<2, 4, 0>>, 2, 2, 1, 2)

InitAgents ==
    /\ game = TableState(AgentsTable)
    /\ hand_started = FALSE
    /\ hands = 0
    /\ obs = Obs0(game)
    /\ agents = AgentsIdle
    /\ cards = NoCards
    /\ hand = NoHand

\* The evaluations matter only to an on_turn that resolves a showdown (they
\* are among Evals of the state the call was made in: no seat becomes a
\* contender during a hand).
AgentEvals(probe) ==
    IF probe.res = "Ok(true)" /\ probe.g.street = "Showdown" THEN Evals(probe.g) ELSE {ev0}

\* The total the call c places the seat to act of g to.
CallTarget(g, c) ==
    CASE c.op = "bet_min" -> Max2(g.big_blind, 1)
      [] c.op = "raise_min" -> g.current_bet + g.min_raise
      [] OTHER -> c.amount

\* An on_turn call that returned r, the hands evaluated as ev if it came to a
\* showdown: the engine is as the call left it.
AgentStep(r, c, ev) ==
    /\ hand_started
    /\ ev \in AgentEvals(r)
    /\ Len(game.hand_history) < MaxHistory
    /\ game' = r.g
    /\ obs' = IF r.res = "Ok(true)" THEN Observe(obs, game, r.g, c.op, CallTarget(game, c))
              ELSE obs
    /\ UNCHANGED <<hand_started, hands, cards, hand>>

\* The driver deals a hand.
AgentsNewHand == hands < MaxHands /\ NewHand

\* The user interface hands the human agent an action (AgentTable::receive).
Receive ==
    \E action \in Calls(game) :
        LET r == HumanAgent_receive(agents, action)
        IN /\ agents.received < MaxReceives
           /\ agents' = [r.agent EXCEPT !.received = @ + (IF r.accepted THEN 1 ELSE 0)]
           /\ UNCHANGED <<game, hand_started, hands, obs, cards, hand>>

\* The action the human agent a has queued (any, when it has none).
QueuedCall(a) ==
    IF a.pending = None THEN Call("check_call", 0) ELSE CHOOSE c \in a.pending : TRUE

\* A HumanAgent::on_turn call that returned r.
HumanStep(r, ev) ==
    /\ AgentStep(r, QueuedCall(agents), ev)
    /\ agents' = [r.agent EXCEPT !.calls = @ + (IF r.called THEN 1 ELSE 0)]

\* A BotAgent::on_turn call that returned r, deciding for decision.
BotStep(r, decision, ev) ==
    /\ AgentStep(r, decision, ev)
    /\ agents' = r.agent

\* The human agent is given the turn of a seat.
HumanTurn ==
    \E seat \in Seats :
        \E ev \in Evals(game) :
            HumanStep(HumanAgent_on_turn(agents, game, seat, ev), ev)

\* The bot agent is given the turn of a seat.
BotTurn ==
    \E seat \in Seats, delay \in Delays :
        \E decision \in BotDecisions(game, seat) :
            \E ev \in Evals(game) :
                BotStep(BotAgent_on_turn(agents, game, seat, delay, decision, ev), decision, ev)

\* Time passes.
Tick ==
    /\ agents.now < MaxClock
    /\ agents' = [agents EXCEPT !.now = @ + 1]
    /\ UNCHANGED <<game, hand_started, hands, obs, cards, hand>>

NextAgents ==
    \/ AgentsNewHand
    \/ Receive
    \/ HumanTurn
    \/ BotTurn
    \/ Tick

SpecAgents == InitAgents /\ [][NextAgents]_vars

\* ------------------------------------------------------------------ C28
\* on_turn returned Ok(false) and the engine is as it was.
Refused(r, g) == r.res = "Ok(false)" /\ ~ r.called /\ r.g = g

\* The bot's delay has not elapsed: a delay was drawn and the time to act is
\* not yet set, or not yet come.
DelayPending(a, delay) ==
    delay > 0 /\ (a.next_action_at = None \/ \E next \in a.next_action_at : a.now < next)

\* C28: an agent's on_turn(engine, seat) returns Ok(false) and leaves the
\* engine unchanged whenever the street is Showdown, or the seat is not the
\* engine's current seat, or, for a bot, its delay has not yet elapsed, or,
\* for a human agent, no action is queued.
C28_OnTurnRefuses ==
    \A seat \in Seats :
        /\ (game.street = "Showdown" \/ seat # game.current \/ agents.pending = None)
              => \A ev \in Evals(game) :
                    Refused(HumanAgent_on_turn(agents, game, seat, ev), game)
        /\ \A delay \in Delays :
              (game.street = "Showdown" \/ seat # game.current \/ DelayPending(agents, delay))
                  => \A decision \in BotDecisions(game, seat) : \A ev \in Evals(game) :
                        Refused(BotAgent_on_turn(agents, game, seat, delay, decision, ev), game)

\* C28 witness: a hand is being played, an action is queued with the human
\* agent, which refuses it for the seats not to act, and the bot, asked to
\* act, has set the time it will act at, which has not come.
C28_Witness ==
    /\ hand_started
    /\ game.street # "Showdown"
    /\ agents.pending # None
    /\ Refused(HumanAgent_on_turn(agents, game, (game.current + 1) % NumPlayers, ev0), game)
    /\ \E next \in agents.next_action_at : agents.now < next
    /\ DelayPending(agents, MaxDelay)

\* ------------------------------------------------------------------ C29
\* A step that is a HumanAgent::on_turn call which called the engine.
HumanCallStep == agents'.calls = agents.calls + 1

\* C29: a human agent holds at most one queued action: receive returns false
\* and leaves the queued action as it is while one is pending; a queued action
\* is submitted to the engine only by an on_turn call for the engine's current
\* seat while the street is not Showdown; and each accepted receive leads to
\* at most one engine action call.
C29_OneQueuedAction ==
    /\ [](/\ Cardinality(agents.pending) <= 1
          /\ agents.pending # None =>
                \A action \in Calls(game) :
                    HumanAgent_receive(agents, action) = [agent |-> agents, accepted |-> FALSE]
          /\ \A seat \in Seats : \A ev \in Evals(game) :
                HumanAgent_on_turn(agents, game, seat, ev).called
                    => (seat = game.current /\ game.street # "Showdown" /\ agents.pending # None)
          /\ agents.calls <= agents.received)
    /\ [][/\ HumanCallStep =>
                /\ agents.pending # None
                /\ agents'.pending = None
                /\ game.street # "Showdown"
                /\ \E ev \in Evals(game) :
                      game' = Do(game, CHOOSE c \in agents.pending : TRUE, ev).g
          /\ (agents.pending # None /\ agents'.pending # None)
                => agents'.pending = agents.pending]_vars

\* C29 witness: the action queued first has been submitted to the engine, and
\* a second one, received since, is queued during a hand.
C29_Witness ==
    /\ hand_started
    /\ game.street # "Showdown"
    /\ agents.calls = 1
    /\ agents.received = 2
    /\ agents.pending # None

\* ------------------------------------------------------------------ C30
\* The seats dealt into the hand.
DealtIn(g) == {i \in Seats : g.players[i].hole}

\* A step that is a BotAgent::on_turn call in which the bot acted: the engine
\* changed during a hand and not by the human agent's call.
BotActsStep ==
    /\ hand_started
    /\ hands' = hands
    /\ game' # game
    /\ agents'.calls = agents.calls

\* The seat to act faces the posted big blind and no raise, preflop.
FacesBigBlind(g) ==
    /\ g.street = "Preflop"
    /\ Unraised(g)
    /\ g.current_bet = g.big_blind
    /\ to_call(g, g.current) > 0

\* C30 (as claimed): in a hand with exactly two players dealt in, however many
\* seats the table has, a bot to act preflop facing only the posted big blind
\* does not fold when it acts.
C30_BotNeverFoldsHeadsUp ==
    [][(BotActsStep /\ Cardinality(DealtIn(game)) = 2 /\ FacesBigBlind(game))
          => game'.hand_history[Len(game.hand_history) + 1].verb # "Fold"]_vars

\* ------------------------------------------------------------------ C31
\* What on_turn can return without an ActionError.
Accepted == {"Ok(true)", "Ok(false)"}

\* C31 (as claimed): whenever the bot's seat is the current Active seat of a
\* hand in progress, whatever action its policy picks is accepted by the
\* engine: on_turn does not return an ActionError.
C31_BotActionAccepted ==
    (hand_started /\ CanAct(game)) =>
        \A delay \in Delays : \A decision \in BotDecisions(game, game.current) :
            BotAgent_on_turn(agents, game, game.current, delay, decision, ev0).res \in Accepted

\* ------------------------------------------------------------------ C38
\* The hand of g has been resolved.
Resolved(g) == g.street = "Showdown" /\ g.pot = 0

\* What a call of finish_showdown on g must leave as it was.
Settlement(g) ==
    [ stacks |-> [i \in Seats |-> g.players[i].stack],
      pot |-> g.pot,
      winners |-> g.winners,
      hand_history |-> g.hand_history ]

\* C38 (as claimed): finish_showdown called again once a hand is resolved
\* (street Showdown, pot 0) changes no stack, nor the pot, the winners or the
\* hand history.
C38_FinishShowdownAgainIsNoOp ==
    (hand_started /\ Resolved(game)) =>
        \A ev \in Evals(game) : Settlement(finish_showdown(game, ev)) = Settlement(game)

\* ------------------------------------------------------------------ C39
\* The status of every seat of g.
StatusOf(g) == [i \in Seats |-> g.players[i].status]

\* C39: within one hand a status only moves from Active to Folded or from
\* Active to AllIn: a successful action leaves every Folded or AllIn seat with
\* the status it had, and the seat that acted, the one the entry appended to
\* the hand history names, was Active.
C39_StatusOnlyLeavesActive ==
    [][ActionStep =>
          /\ \A i \in Seats :
                StatusOf(game)[i] # "Active" => StatusOf(game')[i] = StatusOf(game)[i]
          /\ StatusOf(game)[game.current] = "Active"
          /\ Len(game'.hand_history) > Len(game.hand_history)
          /\ ActionEntry.seat = game.current]_vars

\* C39 witness: one seat has folded and another is all-in while the third,
\* still Active, is to act.
C39_Witness ==
    /\ hand_started
    /\ game.street # "Showdown"
    /\ \E i, j \in Seats :
        /\ StatusOf(game)[i] = "Folded" /\ game.players[i].hole
        /\ StatusOf(game)[j] = "AllIn"
    /\ StatusOf(game)[game.current] = "Active"
    /\ Len(game.hand_history) > 4

\* ------------------------------------------------------------------ C37
\* Some action is accepted in g.
SomeActionAccepted(g) == \E c \in Calls(g) : Do(g, c, ev0).res = "Ok"

\* C37 (as claimed): in every state of a hand with street not Showdown the
\* current seat is Active and some action is accepted: the hand is never stuck
\* with every action failing PlayerNotActive.
C37_DeadlockFree ==
    (hand_started /\ game.street # "Showdown") =>
        /\ game.players[game.current].status = "Active"
        /\ SomeActionAccepted(game)

\* ------------------------------------------------------------------ C40
\* What an action must leave alone at the seats that did not act.
Holding(g, i) ==
    [ stack |-> g.players[i].stack,
      contributed |-> g.players[i].contributed,
      status |-> g.players[i].status,
      hole |-> g.players[i].hole ]

\* C40: a successful action that does not end the hand leaves the stack,
\* contributed, status and hole cards of every seat but the one that acted as
\* they were, and takes off the actor's stack exactly what it adds to the
\* actor's contributed and to the pot.
C40_ActionTouchesActorOnly ==
    [][(ActionStep /\ game'.street # "Showdown") =>
          LET actor == game.current
              paid == game.players[actor].stack - game'.players[actor].stack
          IN /\ \A i \in Seats \ {actor} : Holding(game', i) = Holding(game, i)
             /\ game'.players[actor].hole = game.players[actor].hole
             /\ paid >= 0
             /\ game'.players[actor].contributed = game.players[actor].contributed + paid
             /\ game'.pot = game.pot + paid]_vars

\* C40 witness: a raise has been called for less by a seat now all-in, and the
\* hand goes on with the other seats as the raise left them.
C40_Witness ==
    /\ hand_started
    /\ game.street # "Showdown"
    /\ Len(game.hand_history) >= 4
    /\ \E k \in 3 .. (Len(game.hand_history) - 1) :
        /\ game.hand_history[k].verb = "RaiseTo"
        /\ game.hand_history[k + 1].verb = "Call"
        /\ game.players[game.hand_history[k + 1].seat].status = "AllIn"

\* ------------------------------------------------------------------ cards
\* Rank (Two = 2 .. Ace = 14) and Suit (Clubs, Diamonds, Hearts, Spades in
\* the order of the enum).
Ranks == 2 .. 14
Suits == 0 .. 3
Card(rank, suit) == [rank |-> rank, suit |-> suit]

\* Deck::standard: the suits in turn, the thirteen ranks of each ascending.
Deck_standard == [k \in 1 .. DeckSize |-> Card(((k - 1) % 13) + 2, (k - 1) \div 13)]

\* The cards of an array.
CardsOf(cs) == {cs[k] : k \in DOMAIN cs}

\* ------------------------------------------------------------------ evaluator
\* HandValue(u64), kept as two limbs of 24 and 40 bits: v = hi * 2^24 + lo.
\* from_parts lays out [ category | r0 | r1 | r2 | r3 | r4 ] with the
\* category at bit 48 and r(i) at bit 48 - 6 * (i + 1); the fields are ORed
\* in, which for ranks below 64 is their sum.
Shl(x, n) == x * 2 ^ n

ordinal(category) ==
    CASE category = "HighCard" -> 0
      [] category = "Pair" -> 1
      [] category = "TwoPair" -> 2
      [] category = "ThreeOfAKind" -> 3
      [] category = "Straight" -> 4
      [] category = "Flush" -> 5
      [] category = "FullHouse" -> 6
      [] category = "FourOfAKind" -> 7
      [] category = "StraightFlush" -> 8

\* A faulty from_parts that packs the tiebreakers the wrong way round, r4 the
\* most significant.
from_parts_last_rank_first(category, ranks_desc) ==
    [ hi |-> Shl(ordinal(category), 24) + Shl(ranks_desc[5], 18) + Shl(ranks_desc[4], 12)
               + Shl(ranks_desc[3], 6) + ranks_desc[2],
      lo |-> Shl(ranks_desc[1], 18) ]

from_parts(category, ranks_desc) ==
    [ hi |-> Shl(ordinal(category), 24) + Shl(ranks_desc[1], 18) + Shl(ranks_desc[2], 12)
               + Shl(ranks_desc[3], 6) + ranks_desc[4],
      lo |-> Shl(ranks_desc[5], 18) ]

\* Ord for HandValue: the comparison of the two u64.
cmp(v, w) ==
    IF v.hi # w.hi THEN (IF v.hi < w.hi THEN "Less" ELSE "Greater")
    ELSE IF v.lo # w.lo THEN (IF v.lo < w.lo THEN "Less" ELSE "Greater")
    ELSE "Equal"

\* The ranks of a set, descending.
RECURSIVE DescSeq(_)
DescSeq(S) == IF S = {} THEN << >> ELSE <<MaxOf(S)>> \o DescSeq(S \ {MaxOf(S)})

\* sort_by(rank descending, then suit descending) of distinct cards.
RECURSIVE sorted_cards(_)
sorted_cards(S) ==
    IF S = {} THEN << >>
    ELSE LET top == CHOOSE c \in S : \A d \in S :
                        c.rank > d.rank \/ (c.rank = d.rank /\ c.suit >= d.suit)
         IN <<top>> \o sorted_cards(S \ {top})

\* A faulty detect that takes the wheel's Ace for its top card.
StraightInfo_detect_wheel_ace_high(ranks) ==
    IF \A i \in 1 .. 4 : ranks[i] = ranks[i + 1] + 1 THEN Some(ranks[1])
    ELSE IF ranks = <<14, 5, 4, 3, 2>> THEN Some(14)
    ELSE None

\* StraightInfo::detect on the ranks, descending: top_rank, None when the
\* ranks are no straight.
StraightInfo_detect(ranks) ==
    IF \A i \in 1 .. 4 : ranks[i] = ranks[i + 1] + 1 THEN Some(ranks[1])
    ELSE IF ranks = <<14, 5, 4, 3, 2>> THEN Some(5)
    ELSE None

\* HandAnalysis::new: the sorted cards, their ranks, the rank groups by
\* count (RankGroups: quad, trips, pairs, kickers), SuitInfo and StraightInfo.
HandAnalysis_new(cs) ==
    LET sorted == sorted_cards(CardsOf(cs))
        ranks == [i \in 1 .. 5 |-> sorted[i].rank]
        rank_counts == [r \in Ranks |-> Cardinality({i \in 1 .. 5 : ranks[i] = r})]
        of_count(n) == {r \in Ranks : rank_counts[r] = n}
    IN [ sorted_cards |-> sorted,
         ranks |-> ranks,
         quad |-> IF of_count(4) = {} THEN None ELSE Some(MaxOf(of_count(4))),
         trips |-> IF of_count(3) = {} THEN None ELSE Some(MaxOf(of_count(3))),
         pairs |-> DescSeq(of_count(2)),
         kickers |-> DescSeq(of_count(1)),
         is_flush |-> \A i \in 1 .. 5 : sorted[i].suit = sorted[1].suit,
         top_rank |-> StraightInfo_detect(ranks) ]

has_full_house(a) == a.trips # None /\ Len(a.pairs) > 0
is_straight(a) == a.top_rank # None

\* DETECTORS: the category detectors in priority order.
DETECTORS ==
    << "StraightFlush", "FourOfAKind", "FullHouse", "Flush", "Straight",
       "ThreeOfAKind", "TwoPair", "Pair", "HighCard" >>

\* CategoryDetector::detect of the detector of a category.
detect(category, a) ==
    CASE category = "StraightFlush" -> a.is_flush /\ is_straight(a)
      [] category = "FourOfAKind" -> a.quad # None
      [] category = "FullHouse" -> has_full_house(a)
      [] category = "Flush" -> a.is_flush
      [] category = "Straight" -> is_straight(a)
      [] category = "ThreeOfAKind" -> a.trips # None /\ ~has_full_house(a)
      [] category = "TwoPair" -> Len(a.pairs) = 2
      [] category = "Pair" -> Len(a.pairs) = 1
      [] category = "HighCard" -> TRUE

\* The tiebreak array each detector's build_evaluation passes on.
tiebreak(category, a) ==
    CASE category = "StraightFlush" -> <<MaxOf(a.top_rank), 2, 2, 2, 2>>
      [] category = "FourOfAKind" -> <<MaxOf(a.quad), a.kickers[1], 2, 2, 2>>
      [] category = "FullHouse" -> <<MaxOf(a.trips), a.pairs[1], 2, 2, 2>>
      [] category = "Flush" -> a.ranks
      [] category = "Straight" -> <<MaxOf(a.top_rank), 2, 2, 2, 2>>
      [] category = "ThreeOfAKind" -> <<MaxOf(a.trips), a.kickers[1], a.kickers[2], 2, 2>>
      [] category = "TwoPair" -> <<a.pairs[1], a.pairs[2], a.kickers[1], 2, 2>>
      [] category = "Pair" -> <<a.pairs[1], a.kickers[1], a.kickers[2], a.kickers[3], 2>>
      [] category = "HighCard" -> a.ranks

\* HandAnalysis::build_evaluation.
build_evaluation(a, category) ==
    [ category |-> category,
      best_five |-> a.sorted_cards,
      value |-> from_parts(category, tiebreak(category, a)) ]

\* A faulty detector order that tries Flush before StraightFlush.
first_detector_flush_first(a) ==
    LET order == << "Flush", "StraightFlush", "FourOfAKind", "FullHouse", "Straight",
                    "ThreeOfAKind", "TwoPair", "Pair", "HighCard" >>
        hits == {k \in DOMAIN order : detect(order[k], a)}
    IN IF hits = {} THEN None ELSE Some(order[MinOf(hits)])

\* The first detector of DETECTORS that detects the hand.
first_detector(a) ==
    LET hits == {k \in DOMAIN DETECTORS : detect(DETECTORS[k], a)}
    IN IF hits = {} THEN None ELSE Some(DETECTORS[MinOf(hits)])

\* evaluate_five: the evaluation built by the first detector that matches;
\* the code panics (unreachable!) when none does.
Unreachable == [category |-> "unreachable", best_five |-> << >>, value |-> [hi |-> 0, lo |-> 0]]

evaluate_five(cs) ==
    LET a == HandAnalysis_new(cs)
        found == first_detector(a)
    IN IF found = None THEN Unreachable
       ELSE build_evaluation(a, CHOOSE c \in found : TRUE)

\* Combinations7Choose5: next advances the rightmost index that can still
\* grow and resets those to its right; None once the last combination
\* [2, 3, 4, 5, 6] was returned. Indices count from 0 as in the code.
Combinations_next(indices) ==
    LET movable == {i \in 0 .. 4 : indices[i] < 7 - (5 - i)}
    IN IF movable = {} THEN None
       ELSE LET i == MaxOf(movable)
            IN Some([j \in 0 .. 4 |-> IF j < i THEN indices[j] ELSE indices[i] + 1 + (j - i)])

RECURSIVE CombinationsFrom(_)
CombinationsFrom(indices) ==
    LET nxt == Combinations_next(indices)
    IN <<indices>> \o (IF nxt = None THEN << >> ELSE CombinationsFrom(CHOOSE x \in nxt : TRUE))

Combinations7Choose5 == CombinationsFrom([j \in 0 .. 4 |-> j])

\* The five cards of seven at a combination's indices.
Pick(cs, indices) == [k \in 1 .. 5 |-> cs[indices[k - 1] + 1]]

\* A faulty evaluate_seven that keeps the last combination's evaluation
\* whatever its value.
RECURSIVE best_keeps_last(_, _, _)
best_keeps_last(cs, k, best) ==
    IF k > Len(Combinations7Choose5) THEN best
    ELSE best_keeps_last(cs, k + 1, Some(evaluate_five(Pick(cs, Combinations7Choose5[k]))))

\* The loop of evaluate_seven from combination k on: best is replaced when
\* it is None or the evaluation is strictly greater.
RECURSIVE best_from(_, _, _)
best_from(cs, k, best) ==
    IF k > Len(Combinations7Choose5) THEN best
    ELSE LET eval == evaluate_five(Pick(cs, Combinations7Choose5[k]))
             keep == best = None \/ cmp(eval.value, (CHOOSE b \in best : TRUE).value) = "Greater"
         IN best_from(cs, k + 1, IF keep THEN Some(eval) ELSE best)

evaluate_seven(cs) ==
    LET best == best_from(cs, 1, None)
    IN IF best = None THEN evaluate_five([k \in 1 .. 5 |-> cs[k]])
       ELSE CHOOSE b \in best : TRUE

\* ------------------------------------------------------------------ the evaluator's callers
\* The evaluator is a library of pure functions. A caller hands one of them
\* its arguments and gets the result back; hand holds the arguments and,
\* once the function has run, what it returned.

\* The tiebreak ranks tried for from_parts: the least, the greatest and one
\* in between.
TieRanks == {2, 3, 14}

\* The cards hands are drawn from: the ranks Two .. TopLowRank and the Ace
\* in every suit for five cards; of these the first SevenSuits suits and the
\* remaining Twos for seven cards.
TopLowRank == 6
SevenSuits == 2
FiveUniverse == SelectSeq(Deck_standard, LAMBDA c : c.rank <= TopLowRank \/ c.rank = 14)
SevenUniverse == SelectSeq(FiveUniverse, LAMBDA c : c.suit < SevenSuits \/ c.rank = 2)

\* Straights of every height are drawn as well: the straight with top card
\* top (5 for the wheel A-2-3-4-5), as a straight flush in clubs or with its
\* top card in diamonds.
StraightRanks(top) == IF top = 5 THEN <<14, 2, 3, 4, 5>> ELSE [k \in 1 .. 5 |-> top - 5 + k]
StraightHand(top, flush) ==
    [k \in 1 .. 5 |-> Card(StraightRanks(top)[k], IF k = 5 /\ ~ flush THEN 1 ELSE 0)]

InitEval ==
    /\ game = TableState(Blind3Table)
    /\ hand_started = FALSE
    /\ hands = 0
    /\ obs = Obs0(game)
    /\ agents = AgentsIdle
    /\ cards = NoCards
    /\ \/ \E category \in CardsOf(DETECTORS) : \E ranks_desc \in [1 .. 5 -> TieRanks] :
              hand = Request("from_parts", [category |-> category, ranks |-> ranks_desc])
       \/ \E a \in 1 .. Len(FiveUniverse) : \E b \in a + 1 .. Len(FiveUniverse) :
          \E c \in b + 1 .. Len(FiveUniverse) : \E d \in c + 1 .. Len(FiveUniverse) :
          \E e \in d + 1 .. Len(FiveUniverse) :
              hand = Request("evaluate_five",
                        [k \in 1 .. 5 |-> FiveUniverse[<<a, b, c, d, e>>[k]]])
       \/ \E top \in 5 .. 14 : \E flush \in BOOLEAN :
              hand = Request("evaluate_five", StraightHand(top, flush))
       \/ \E a \in 1 .. Len(SevenUniverse) : \E b \in a + 1 .. Len(SevenUniverse) :
          \E c \in b + 1 .. Len(SevenUniverse) : \E d \in c + 1 .. Len(SevenUniverse) :
          \E e \in d + 1 .. Len(SevenUniverse) : \E f \in e + 1 .. Len(SevenUniverse) :
          \E g \in f + 1 .. Len(SevenUniverse) :
              hand = Request("evaluate_seven",
                        [k \in 1 .. 7 |-> SevenUniverse[<<a, b, c, d, e, f, g>>[k]]])

Pending(op) == hand.op = op /\ hand.result = None

FromParts ==
    /\ Pending("from_parts")
    /\ hand' = [hand EXCEPT !.result = Some(from_parts(hand.args.category, hand.args.ranks))]
    /\ UNCHANGED <<game, hand_started, hands, obs, agents, cards>>

EvaluateFive ==
    /\ Pending("evaluate_five")
    /\ hand' = [hand EXCEPT !.result = Some(evaluate_five(hand.args))]
    /\ UNCHANGED <<game, hand_started, hands, obs, agents, cards>>

EvaluateSeven ==
    /\ Pending("evaluate_seven")
    /\ hand' = [hand EXCEPT !.result = Some(evaluate_seven(hand.args))]
    /\ UNCHANGED <<game, hand_started, hands, obs, agents, cards>>

NextEval ==
    \/ FromParts
    \/ EvaluateFive
    \/ EvaluateSeven

SpecEval == InitEval /\ [][NextEval]_vars

\* What the function called returned, once it has.
Returned(op) == hand.op = op /\ hand.result # None
Result == CHOOSE r \in hand.result : TRUE

\* ------------------------------------------------------------------ C32
\* The parts of a value as one tuple (category, r0, .., r4), and the
\* lexicographic comparison of two such tuples.
Parts(category, ranks_desc) == <<ordinal(category)>> \o ranks_desc

LexCmp(x, y) ==
    LET differ == {k \in DOMAIN x : x[k] # y[k]}
    IN IF differ = {} THEN "Equal"
       ELSE IF x[MinOf(differ)] < y[MinOf(differ)] THEN "Less" ELSE "Greater"

Reverse(ordering) ==
    CASE ordering = "Less" -> "Greater"
      [] ordering = "Greater" -> "Less"
      [] ordering = "Equal" -> "Equal"

AtMost(v, w) == cmp(v, w) \in {"Less", "Equal"}

PartsInputs == {[category |-> c, ranks |-> r] : c \in CardsOf(DETECTORS), r \in [1 .. 5 -> TieRanks]}

\* The values transitivity is tried on: three categories, the tiebreakers
\* all least but for two places.
ProbeValues ==
    {from_parts(c, <<2, a, 2, 2, b>>) : c \in {"HighCard", "Pair", "StraightFlush"},
                                         a \in TieRanks, b \in TieRanks}

\* C32: the value from_parts(c1, r) returned compares with from_parts(c2, s),
\* for every category c2 and tiebreak s, as (c1, r0..r4) compares with
\* (c2, s0..s4) lexicographically; the order is total (either way round the
\* comparisons agree), antisymmetric (equal only to itself) and transitive.
C32_ValueOrderIsLexicographic ==
    Returned("from_parts") =>
        /\ \A y \in PartsInputs :
              LET w == from_parts(y.category, y.ranks)
              IN /\ cmp(Result, w) = LexCmp(Parts(hand.args.category, hand.args.ranks),
                                            Parts(y.category, y.ranks))
                 /\ cmp(w, Result) = Reverse(cmp(Result, w))
                 /\ (AtMost(Result, w) /\ AtMost(w, Result)) => (w = Result /\ y = hand.args)
        /\ \A v \in ProbeValues : \A w \in ProbeValues :
              /\ (AtMost(v, Result) /\ AtMost(Result, w)) => AtMost(v, w)
              /\ (AtMost(Result, v) /\ AtMost(v, w)) => AtMost(Result, w)

\* A pair with the least kickers but the last was built: it beats the best
\* high card and loses to a pair whose earlier kicker is higher.
C32_Witness ==
    /\ Returned("from_parts")
    /\ hand.args = [category |-> "Pair", ranks |-> <<2, 2, 2, 2, 14>>]
    /\ cmp(Result, from_parts("HighCard", <<14, 14, 14, 14, 14>>)) = "Greater"
    /\ cmp(Result, from_parts("Pair", <<2, 2, 2, 3, 2>>)) = "Less"

\* ------------------------------------------------------------------ C34
\* What it is for five cards S to make a category, said of the cards
\* themselves: how many cards of S have rank r, and the poker meaning of each
\* category (a better hand also makes the lesser categories it contains).
CountOf(S, r) == Cardinality({c \in S : c.rank = r})
RanksOf(S) == {c.rank : c \in S}

Makes(category, S) ==
    LET flush == Cardinality({c.suit : c \in S}) = 1
        straight == /\ Cardinality(RanksOf(S)) = 5
                    /\ \/ MaxOf(RanksOf(S)) - MinOf(RanksOf(S)) = 4
                       \/ RanksOf(S) = {14, 2, 3, 4, 5}
    IN CASE category = "StraightFlush" -> flush /\ straight
         [] category = "FourOfAKind" -> \E r \in Ranks : CountOf(S, r) = 4
         [] category = "FullHouse" ->
                \E r \in Ranks : \E q \in Ranks : CountOf(S, r) = 3 /\ CountOf(S, q) = 2
         [] category = "Flush" -> flush
         [] category = "Straight" -> straight
         [] category = "ThreeOfAKind" -> \E r \in Ranks : CountOf(S, r) >= 3
         [] category = "TwoPair" ->
                \E r \in Ranks : \E q \in Ranks \ {r} : CountOf(S, r) >= 2 /\ CountOf(S, q) >= 2
         [] category = "Pair" -> \E r \in Ranks : CountOf(S, r) >= 2
         [] category = "HighCard" -> TRUE

\* The place of a category in the priority order, StraightFlush first.
Priority(category) == CHOOSE k \in DOMAIN DETECTORS : DETECTORS[k] = category

\* C34: for five distinct cards evaluate_five returns a category (it never
\* fails), the cards make that category, and they make no category of higher
\* priority in the order StraightFlush > FourOfAKind > FullHouse > Flush >
\* Straight > ThreeOfAKind > TwoPair > Pair > HighCard.
C34_HighestCategoryReturned ==
    Returned("evaluate_five") =>
        /\ Result.category \in CardsOf(DETECTORS)
        /\ Makes(Result.category, CardsOf(hand.args))
        /\ \A k \in DOMAIN DETECTORS :
              k < Priority(Result.category) => ~ Makes(DETECTORS[k], CardsOf(hand.args))

\* A straight flush was evaluated: the cards make a flush and a straight as
\* well, and StraightFlush is what came back.
C34_Witness ==
    /\ Returned("evaluate_five")
    /\ Result.category = "StraightFlush"
    /\ Makes("Flush", CardsOf(hand.args))
    /\ Makes("Straight", CardsOf(hand.args))
    /\ RanksOf(CardsOf(hand.args)) = {14, 2, 3, 4, 5}

\* ------------------------------------------------------------------ C35
\* The top card of the straight S: five for the wheel, else its highest rank.
TopCard(S) == IF RanksOf(S) = {14, 2, 3, 4, 5} THEN 5 ELSE MaxOf(RanksOf(S))

IntCmp(a, b) == IF a < b THEN "Less" ELSE IF a > b THEN "Greater" ELSE "Equal"

\* C35: a straight (or straight flush) that was evaluated, of any top card
\* 5 .. Ace, compares with every straight (straight flush) of top card
\* 5 .. Ace as their top cards compare,
\* the wheel A-2-3-4-5 counting as five-high: strictly below every other,
\* the 6-high included.
C35_StraightsOrderedByTopCard ==
    (Returned("evaluate_five") /\ Result.category \in {"Straight", "StraightFlush"}) =>
        \A top \in 5 .. 14 :
            LET other == evaluate_five(StraightHand(top, Result.category = "StraightFlush"))
            IN /\ other.category = Result.category
               /\ cmp(Result.value, other.value) = IntCmp(TopCard(CardsOf(hand.args)), top)

\* The wheel was evaluated as a straight: it holds an Ace and is less than
\* the 6-high straight.
C35_Witness ==
    /\ Returned("evaluate_five")
    /\ Result.category = "Straight"
    /\ RanksOf(CardsOf(hand.args)) = {14, 2, 3, 4, 5}
    /\ cmp(Result.value, evaluate_five(StraightHand(6, FALSE)).value) = "Less"

\* ------------------------------------------------------------------ C33
\* The five-card hands of seven cards: the cards at any five of the seven
\* places, in the order they stand in.
RECURSIVE Ascending(_)
Ascending(S) == IF S = {} THEN << >> ELSE <<MinOf(S)>> \o Ascending(S \ {MinOf(S)})

Subhands(cs) ==
    {[k \in 1 .. 5 |-> cs[Ascending(P)[k]]] : P \in {Q \in SUBSET (1 .. 7) : Cardinality(Q) = 5}}

\* C33: what evaluate_seven returned for seven cards is at least
\* evaluate_five of every five of them, and equal to evaluate_five of some
\* five of them.
C33_SevenIsBestFive ==
    Returned("evaluate_seven") =>
        /\ \A y \in Subhands(hand.args) :
              cmp(Result.value, evaluate_five(y).value) \in {"Greater", "Equal"}
        /\ \E y \in Subhands(hand.args) :
              /\ cmp(Result.value, evaluate_five(y).value) = "Equal"
              /\ Result.category = evaluate_five(y).category

\* Seven cards were evaluated whose best five are neither the first five nor
\* the last five: both evaluate strictly less than what came back.
C33_Witness ==
    /\ Returned("evaluate_seven")
    /\ Cardinality(Subhands(hand.args)) = 21
    /\ cmp(Result.value, evaluate_five([k \in 1 .. 5 |-> hand.args[k]]).value) = "Greater"
    /\ cmp(Result.value, evaluate_five([k \in 1 .. 5 |-> hand.args[k + 2]]).value) = "Greater"

\* ------------------------------------------------------------------ the deck, card by card
\* reset_hand_state shuffles Deck::standard with a random seed. A shuffle is
\* a permutation of the deck; the seeds tried stand for the identity and for
\* permutations that move every card: position k takes the card at
\* (k - 1) * (2 * seed + 1) + seed, counted round the deck.
MaxSeed == 2
Seeds == 0 .. MaxSeed

shuffle_seeded(deck, seed) ==
    [k \in 1 .. Len(deck) |-> deck[(((k - 1) * (2 * seed + 1) + seed) % Len(deck)) + 1]]

\* A faulty draw that hands out the top card and leaves it on the deck.
draw_keeps_card(cs) ==
    IF cs.deck = << >> THEN [card |-> None, cards |-> cs]
    ELSE [card |-> Some(cs.deck[Len(cs.deck)]), cards |-> cs]

\* Deck::draw: cards.pop(), the last card of the Vec, None on an empty deck.
draw(cs) ==
    IF cs.deck = << >> THEN [card |-> None, cards |-> cs]
    ELSE [ card |-> Some(cs.deck[Len(cs.deck)]),
           cards |-> [cs EXCEPT !.deck = SubSeq(cs.deck, 1, Len(cs.deck) - 1)] ]

\* Up to n cards drawn one after the other and put on the board, stopping
\* at an empty deck: draw_n(3) and board.extend on the flop, draw and
\* board.push on the turn and the river, the loop of complete_board.
RECURSIVE deal_board(_, _)
deal_board(cs, n) ==
    IF n <= 0 THEN cs
    ELSE LET d == draw(cs)
         IN IF d.card = None THEN d.cards
            ELSE deal_board([d.cards EXCEPT !.board = Append(@, CHOOSE c \in d.card : TRUE)], n - 1)

\* deal_hole_cards, seat i onwards: an Active seat draws two cards and holds
\* them if both were drawn and HoleCards::try_new takes them (they differ);
\* the cards drawn are off the deck either way.
RECURSIVE deal_hole_cards_to(_, _, _)
deal_hole_cards_to(g, cs, i) ==
    IF i >= NumPlayers THEN cs
    ELSE IF g.players[i].status = "Active"
         THEN LET first == draw(cs)
                  second == draw(first.cards)
                  dealt == first.card # None /\ second.card # None /\ first.card # second.card
                  held == <<CHOOSE c \in first.card : TRUE, CHOOSE c \in second.card : TRUE>>
              IN deal_hole_cards_to(g,
                    IF dealt THEN [second.cards EXCEPT !.hole[i] = held] ELSE second.cards,
                    i + 1)
         ELSE deal_hole_cards_to(g, cs, i + 1)

\* The cards as new_hand leaves them: a fresh shuffled deck, an empty board,
\* no hole cards, then the deal to the seats reset_players_for_new_hand
\* made Active.
new_hand_cards(g, seed) ==
    deal_hole_cards_to(
        reset_players_for_new_hand(g),
        [NoCards EXCEPT !.deck = shuffle_seeded(Deck_standard, seed)],
        0)

\* Game::new(3, 4, 1, 2) as constructed.
DeckTable == Table(<<4, 4, 4>>, 0, 4, 1, 2)

InitDeck ==
    /\ game = TableState(DeckTable)
    /\ hand_started = FALSE
    /\ hands = 0
    /\ obs = Obs0(game)
    /\ agents = AgentsIdle
    /\ cards = NoCards
    /\ hand = NoHand

\* new_hand with the cards followed; the seed is whatever rand::rng() gives.
DeckNewHand ==
    /\ ~ hand_started \/ game.street = "Showdown"
    /\ hands <= MaxHands
    /\ game' = new_hand(game)
    /\ \E seed \in Seeds : cards' = new_hand_cards(game, seed)
    /\ hand_started' = TRUE
    /\ hands' = hands + 1
    /\ obs' = Obs0(game)
    /\ UNCHANGED <<agents, hand>>

\* A call c of an action method that returned r, the hands evaluated as ev
\* if it came to a showdown, with the cards followed: the engine draws onto
\* the board as many cards as the streets dealt and complete_board call for.
DeckApply(r, c, ev) ==
    /\ hand_started
    /\ hands <= MaxHands
    /\ Len(game.hand_history) < MaxHistory
    /\ r.res = "Ok"
    /\ ev \in EvalsFor(r)
    /\ game' = r.g
    /\ obs' = Observe(obs, game, r.g, c.op, CallTarget(game, c))
    /\ cards' = deal_board(cards, r.g.board - game.board)
    /\ UNCHANGED <<hand_started, hands, agents, hand>>

\* The driver calls an action method.
DeckAct ==
    \E c \in Calls(game) :
        \E ev \in Evals(game) :
            DeckApply(Do(game, c, ev), c, ev)

NextDeck ==
    \/ DeckNewHand
    \/ DeckAct

SpecDeck == InitDeck /\ [][NextDeck]_vars

\* ------------------------------------------------------------------ C36
\* Every card held, on the board or in the deck, one after the other.
RECURSIVE HoleCardsFrom(_, _)
HoleCardsFrom(cs, i) ==
    IF i >= NumPlayers THEN << >> ELSE cs.hole[i] \o HoleCardsFrom(cs, i + 1)

AllCards(cs) == HoleCardsFrom(cs, 0) \o cs.board \o cs.deck

\* C36: in every state of a hand the hole cards, the board and the deck hold
\* 52 cards between them and every card of the standard deck is among them
\* (so none is there twice and none is missing); they are the cards the
\* engine counts: as many in the deck and on the board, two with each seat
\* that has hole cards.
C36_CardsPartitionTheDeck ==
    hand_started =>
        /\ Len(AllCards(cards)) = DeckSize
        /\ CardsOf(AllCards(cards)) = CardsOf(Deck_standard)
        /\ Len(cards.deck) = game.deck
        /\ Len(cards.board) = game.board
        /\ \A i \in Seats : Len(cards.hole[i]) = (IF game.players[i].hole THEN 2 ELSE 0)

\* A hand went to showdown with the board complete, a seat having folded
\* with its cards, from a deck that was shuffled.
C36_Witness ==
    /\ hand_started
    /\ game.street = "Showdown"
    /\ Len(cards.board) = 5
    /\ \E i \in Seats : game.players[i].status = "Folded" /\ Len(cards.hole[i]) = 2
    /\ cards.hole[0] # <<Deck_standard[DeckSize], Deck_standard[DeckSize - 1]>>

====
